---- MODULE Spec2Model ----
(***************************************************************************)
(* A model of pinvl's validator composition and error aggregation engine   *)
(* (src/pinvl/validators.py): ValidatorBase.check, the leaf validators,    *)
(* Or, List, Tuple, Key, Dict, Mapping and the DataError tree.             *)
(*                                                                         *)
(* Python values are tagged records.  A str is a sequence of one-character *)
(* strings, so that parsing a number out of a str is computed and not      *)
(* assumed.  A float is kept in tenths (x10).  A dict is the sequence of   *)
(* its (key, value) pairs in iteration order; its keys are pairwise        *)
(* distinct under Python's ==.                                             *)
(*                                                                         *)
(* The package targets Python 2.7 and 3.2-3.4 (src/setup.py:25-31): there  *)
(* `raise StopIteration()` inside a generator ends the generator, and the  *)
(* iteration order of a dict is not its insertion order.                   *)
(***************************************************************************)
EXTENDS Integers, Sequences, FiniteSets, TLC

VARIABLES
    vdr,        \* the validator graph that was built (the schema)
    declared,   \* the items Dict.__init__ was given, in the order written
    op,         \* the last call made on vdr
    value,      \* the argument of the last call
    result,     \* what the last call returned or raised
    locals,     \* the locals of the handler that ran last, as it left them
    calls,      \* the check calls made, and the default factories they invoked
    PY3,        \* _compat.PY3: the interpreter is a Python 3
    forward     \* self.validator of the Forward object: None until provided

vars == <<vdr, declared, op, value, result, locals, calls, PY3, forward>>

----------------------------------------------------------------------------
(* Bounds of the model *)

MaxLen == 3         \* longest input list
MaxEntries == 2     \* most entries of an input dict
MaxCalls == 1       \* most check calls in one behaviour
MaxConverters == 1  \* most converters attached to the Forward object

----------------------------------------------------------------------------
(* Python values *)

NoneV == [t |-> "none"]
BoolV(b) == [t |-> "bool", b |-> b]
IntV(i) == [t |-> "int", i |-> i]
FloatV(x) == [t |-> "float", x10 |-> x]
StrV(s) == [t |-> "str", s |-> s]
ListV(items) == [t |-> "list", items |-> items]
TupleV(items) == [t |-> "tuple", items |-> items]
DictV(pairs) == [t |-> "dict", pairs |-> pairs]
\* a str the library itself writes (a repr, the locators 'key' and 'value')
Text(r) == [t |-> "text", r |-> r]
\* _compat.Undefined
Undefined == [t |-> "undefined"]

IsNumber(v) == v.t \in {"bool", "int", "float"}

\* the numeric value of a bool, int or float, in tenths
Num10(v) ==
    CASE v.t = "bool" -> (IF v.b THEN 10 ELSE 0)
      [] v.t = "int" -> 10 * v.i
      [] v.t = "float" -> v.x10

\* Python's == on the values of the model: numbers compare by value
\* (True == 1 == 1.0), everything else by type and content
PyEq(a, b) ==
    IF IsNumber(a) /\ IsNumber(b) THEN Num10(a) = Num10(b)
    ELSE a = b

\* isinstance(value, string_types)
IsString(v) == v.t \in {"str", "text"}

\* isinstance(value, numbers.Real)
IsReal(v) == IsNumber(v)

----------------------------------------------------------------------------
(* dict operations; a dict is a sequence of <<key, value>> pairs *)

Range(s) == {s[i] : i \in 1..Len(s)}

Keys(pairs) == {pairs[i][1] : i \in 1..Len(pairs)}

\* key in d
HasKey(pairs, k) == \E i \in 1..Len(pairs) : PyEq(pairs[i][1], k)

KeyIndex(pairs, k) == CHOOSE i \in 1..Len(pairs) : PyEq(pairs[i][1], k)

\* d[key]
Get(pairs, k) == pairs[KeyIndex(pairs, k)][2]

\* d[key] = value: an existing key keeps its place and its key object
Put(pairs, k, v) ==
    IF HasKey(pairs, k)
    THEN [pairs EXCEPT ![KeyIndex(pairs, k)] = <<pairs[KeyIndex(pairs, k)][1], v>>]
    ELSE Append(pairs, <<k, v>>)

\* del d[key]
Remove(pairs, k) ==
    LET i == KeyIndex(pairs, k)
    IN SubSeq(pairs, 1, i - 1) \o SubSeq(pairs, i + 1, Len(pairs))

\* dict(enumerate(lst))
Enumerate(lst) == [i \in 1..Len(lst) |-> <<IntV(i - 1), lst[i]>>]

----------------------------------------------------------------------------
(* DataError and the outcome of a call *)

\* DataError("message")
Msg(m) == [e |-> "msg", m |-> m]
\* DataError({locator: DataError, ...})
ErrMap(pairs) == [e |-> "map", pairs |-> pairs]

Ok(v) == [st |-> "ok", val |-> v]
\* raise DataError(...)
Fail(err) == [st |-> "err", err |-> err]
\* any other exception
Raise(exc) == [st |-> "exc", exc |-> exc]

IsOk(r) == r.st = "ok"
IsFail(r) == r.st = "err"
IsRaise(r) == r.st = "exc"

\* whether v is a DataError: isinstance(v, self.__class__)
IsDataError(v) == "e" \in DOMAIN v

\* as_dict that leaves the children of a compound error as they are
DataError_as_dict_shallow(self) ==
    IF self.e # "map" THEN Text(self.m) ELSE DictV(self.pairs)

\* DataError.as_dict: self.error when it is no dict, and else the dict of
\* its entries, each DataError among them flattened
RECURSIVE DataError_as_dict(_)
DataError_as_dict(self) ==
    IF self.e # "map" THEN Text(self.m)
    ELSE DictV([i \in 1..Len(self.pairs) |->
                   <<self.pairs[i][1],
                     IF IsDataError(self.pairs[i][2])
                     THEN DataError_as_dict(self.pairs[i][2])
                     ELSE self.pairs[i][2]>>])

\* DataError(error) for an error that is a message or a dict
DataError_init(error) ==
    IF error.t = "dict" THEN ErrMap(error.pairs) ELSE Msg(error.r)

\* the index of the first result of rs that is an exception other than
\* DataError; 0 if there is none
FirstRaise(rs) ==
    IF \E i \in 1..Len(rs) : IsRaise(rs[i])
    THEN CHOOSE i \in 1..Len(rs) : IsRaise(rs[i]) /\ \A j \in 1..(i - 1) : ~IsRaise(rs[j])
    ELSE 0

----------------------------------------------------------------------------
(* str operations *)

Digits == {"0", "1", "2", "3", "4", "5", "6", "7", "8", "9"}

DigitVal(c) ==
    CASE c = "0" -> 0 [] c = "1" -> 1 [] c = "2" -> 2 [] c = "3" -> 3
      [] c = "4" -> 4 [] c = "5" -> 5 [] c = "6" -> 6 [] c = "7" -> 7
      [] c = "8" -> 8 [] c = "9" -> 9

\* str.lower(), on the letters the model uses
LowerChar(c) ==
    CASE c = "Y" -> "y" [] c = "N" -> "n" [] c = "T" -> "t" [] c = "F" -> "f"
      [] c = "E" -> "e" [] c = "S" -> "s" [] c = "O" -> "o"
      [] OTHER -> c

Lower(s) == [i \in 1..Len(s) |-> LowerChar(s[i])]

RECURSIVE LStrip(_)
LStrip(s) == IF s # <<>> /\ Head(s) = " " THEN LStrip(Tail(s)) ELSE s

RECURSIVE RStrip(_)
RStrip(s) ==
    IF s # <<>> /\ s[Len(s)] = " " THEN RStrip(SubSeq(s, 1, Len(s) - 1)) ELSE s

\* str.strip()
Strip(s) == RStrip(LStrip(s))

RECURSIVE DigitsValue(_)
DigitsValue(s) ==
    IF s = <<>> THEN 0
    ELSE 10 * DigitsValue(SubSeq(s, 1, Len(s) - 1)) + DigitVal(s[Len(s)])

AllDigits(s) == \A i \in 1..Len(s) : s[i] \in Digits

\* float(str): surrounding blanks, an optional sign, digits with an optional
\* fraction.  The value is kept in tenths; `whole` tells whether the number
\* is an integer.  (Exponents, inf and nan are outside the alphabet of the
\* model, and its strs carry at most one fractional digit.)
ParseNumber(negative, ipart, fpart) ==
    IF ~(AllDigits(ipart) /\ AllDigits(fpart) /\ ipart \o fpart # <<>>)
    THEN [ok |-> FALSE]
    ELSE [ok |-> TRUE,
          x10 |-> (IF negative THEN -1 ELSE 1)
                  * (10 * DigitsValue(ipart) + (IF fpart = <<>> THEN 0 ELSE DigitVal(fpart[1]))),
          whole |-> \A i \in 1..Len(fpart) : fpart[i] = "0"]

ParseUnsigned(negative, body, dots) ==
    IF dots = {} THEN ParseNumber(negative, body, <<>>)
    ELSE IF Cardinality(dots) > 1 THEN [ok |-> FALSE]
    ELSE ParseNumber(negative, SubSeq(body, 1, (CHOOSE i \in dots : TRUE) - 1),
                     SubSeq(body, (CHOOSE i \in dots : TRUE) + 1, Len(body)))

ParseSigned(negative, body) ==
    ParseUnsigned(negative, body, {i \in 1..Len(body) : body[i] = "."})

ParseStripped(s) ==
    IF s # <<>> /\ Head(s) \in {"+", "-"} THEN ParseSigned(Head(s) = "-", Tail(s))
    ELSE ParseSigned(FALSE, s)

ParseFloat(str) == ParseStripped(Strip(str))

RECURSIVE JoinChars(_)
JoinChars(s) == IF s = <<>> THEN "" ELSE Head(s) \o JoinChars(Tail(s))

RECURSIVE Join(_, _)
Join(strs, sep) ==
    IF strs = <<>> THEN ""
    ELSE IF Len(strs) = 1 THEN strs[1]
    ELSE strs[1] \o sep \o Join(Tail(strs), sep)

\* "{0}".format(value), for a str or an int
Format(v) ==
    CASE v.t = "str" -> JoinChars(v.s)
      [] v.t = "int" -> ToString(v.i)
      [] v.t = "none" -> "None"
      [] OTHER -> v.t

\* "{0!r}".format(value)
PyRepr(v) ==
    CASE v.t = "str" -> "'" \o JoinChars(v.s) \o "'"
      [] v.t = "bool" -> (IF v.b THEN "True" ELSE "False")
      [] OTHER -> Format(v)

----------------------------------------------------------------------------
(* Validators.  A validator is a record: cls is its class, converters its  *)
(* _converters list, the other fields are the attributes __init__ sets.    *)

ValidatorBase_init(cls) == [cls |-> cls, converters |-> <<>>]

Type_init(type_) == [cls |-> "Type", converters |-> <<>>, type |-> type_]
Any_init == ValidatorBase_init("Any")
Null_init == ValidatorBase_init("Null")
Bool_init(convert) == [cls |-> "Bool", converters |-> <<>>, convert |-> convert]
NumberBase_init(cls, gte, lte, gt, lt) ==
    [cls |-> cls, converters |-> <<>>, gte |-> gte, lte |-> lte, gt |-> gt, lt |-> lt]
Float_init == NumberBase_init("Float", NoneV, NoneV, NoneV, NoneV)
Int_init == NumberBase_init("Int", NoneV, NoneV, NoneV, NoneV)
Atom_init(v) == [cls |-> "Atom", converters |-> <<>>, value |-> v]
\* a pattern is [set]+ over the characters of `chars`, with or without a
\* closing $; NoneV is no pattern
String_init == [cls |-> "String", converters |-> <<>>, regex |-> NoneV]
String_init_regex(chars, anchored) ==
    [cls |-> "String", converters |-> <<>>,
     regex |-> [t |-> "regex", chars |-> chars, anchored |-> anchored]]
Enum_init(variants) == [cls |-> "Enum", converters |-> <<>>, variants |-> variants]
Callable_init == ValidatorBase_init("Callable")

\* Forward(): the validator it is bound to is the variable forward
Forward_init == ValidatorBase_init("Forward")
Or_init(validators) == [cls |-> "Or", converters |-> <<>>, validators |-> validators]
List_init(validator, min_length, max_length) ==
    [cls |-> "List", converters |-> <<>>, validator |-> validator,
     min_length |-> min_length, max_length |-> max_length]
Tuple_init(validators) == [cls |-> "Tuple", converters |-> <<>>, validators |-> validators]
Mapping_init(key, val) ==
    [cls |-> "Mapping", converters |-> <<>>, validator_key |-> key, validator_value |-> val]
Key_init(name, default, optional, to_name, validator) ==
    [cls |-> "Key", name |-> name, to_name |-> to_name, default |-> default,
     optional |-> optional, validator |-> validator]

\* isinstance(value, type_), for the builtin types the model has
IsInstance(v, type_) ==
    CASE type_ = "int" -> v.t \in {"int", "bool"}
      [] type_ = "bool" -> v.t = "bool"
      [] type_ = "float" -> v.t = "float"
      [] type_ = "str" -> IsString(v)
      [] type_ = "list" -> v.t = "list"
      [] type_ = "dict" -> v.t = "dict"
      [] type_ = "tuple" -> v.t = "tuple"

----------------------------------------------------------------------------
(* The leaf validators *)

cannot_convert(type_name) == Fail(Msg("value cannot be converted to " \o type_name))

\* TypeConvert._convert with _value_type = float
Float_convert(v) ==
    IF v.t = "float" THEN Ok(v)
    ELSE IF ~(IsString(v) \/ IsReal(v)) THEN cannot_convert("float")
    ELSE IF IsReal(v) THEN Ok(FloatV(Num10(v)))
    ELSE IF v.t = "str" /\ ParseFloat(v.s).ok THEN Ok(FloatV(ParseFloat(v.s).x10))
    ELSE cannot_convert("float")

\* int(value) for a real or a str value, and the test val != value; f is
\* the number value stands for
Int_truncate(f) ==
    IF ~f.ok THEN cannot_convert("int")
    ELSE IF ~f.whole THEN Fail(Msg("value is not int"))
    ELSE Ok(IntV((f.x10 - (f.x10 % 10)) \div 10))

Int_convert(v) ==
    IF IsInstance(v, "int") THEN Ok(v)
    ELSE IF ~(IsString(v) \/ IsReal(v)) THEN cannot_convert("int")
    ELSE IF IsReal(v)
    THEN Int_truncate([ok |-> TRUE, x10 |-> Num10(v), whole |-> Num10(v) % 10 = 0])
    ELSE IF v.t = "str" THEN Int_truncate(ParseFloat(v.s))
    ELSE cannot_convert("int")

\* the comparisons of NumberBase._check with the converted value c
NumberBase_compare(self, c) ==
    IF ~IsOk(c) THEN c
    ELSE IF self.gte # NoneV /\ Num10(c.val) < Num10(self.gte)
         THEN Fail(Msg("value is less than " \o Format(self.gte)))
    ELSE IF self.lte # NoneV /\ Num10(c.val) > Num10(self.lte)
         THEN Fail(Msg("value is greater than " \o Format(self.lte)))
    ELSE IF self.lt # NoneV /\ Num10(c.val) >= Num10(self.lt)
         THEN Fail(Msg("value should be less than " \o Format(self.lt)))
    ELSE IF self.gt # NoneV /\ Num10(c.val) <= Num10(self.gt)
         THEN Fail(Msg("value should be greater than " \o Format(self.gt)))
    ELSE c

NumberBase_check(self, v) ==
    NumberBase_compare(self, IF self.cls = "Int" THEN Int_convert(v) ELSE Float_convert(v))

Type_check(self, v) ==
    IF ~IsInstance(v, self.type) THEN Fail(Msg("value is not " \o self.type))
    ELSE Ok(v)

Any_check(self, v) == Ok(v)

Null_check(self, v) ==
    IF v # NoneV THEN Fail(Msg("value should be None")) ELSE Ok(v)

\* ("t" "yes" is one literal, "tyes")
aliases_true ==
    {BoolV(TRUE), IntV(1), StrV(<<"t", "r", "u", "e">>), StrV(<<"t", "y", "e", "s">>),
     StrV(<<"y">>), StrV(<<"1">>)}
aliases_false ==
    {BoolV(FALSE), IntV(0), StrV(<<"f", "a", "l", "s", "e">>), StrV(<<"f">>),
     StrV(<<"n", "o">>), StrV(<<"n">>), StrV(<<"0">>)}

\* value in a set, as Python decides it
PyIn(v, set) == \E a \in set : PyEq(a, v)

Bool_convert(v) ==
    LET w == IF v.t = "str" THEN StrV(Lower(Strip(v.s))) ELSE v
    IN IF (IsString(v) \/ IsInstance(v, "int")) /\ PyIn(w, aliases_true) THEN Ok(BoolV(TRUE))
       ELSE IF (IsString(v) \/ IsInstance(v, "int")) /\ PyIn(w, aliases_false)
            THEN Ok(BoolV(FALSE))
       ELSE Fail(Msg("value cannot be converted to bool"))

Bool_check(self, v) ==
    IF v.t = "bool" THEN Ok(v)
    ELSE IF ~self.convert THEN Fail(Msg("value should be True or False"))
    ELSE Bool_convert(v)

Atom_check(self, v) ==
    IF ~PyEq(self.value, v) THEN Fail(Msg("value is not exactly " \o PyRepr(self.value)))
    ELSE Ok(self.value)

\* regex.match(value): the longest run of pattern characters at the start
RECURSIVE MatchLen(_, _)
MatchLen(chars, s) ==
    IF s # <<>> /\ Head(s) \in chars THEN 1 + MatchLen(chars, Tail(s)) ELSE 0

String_check(self, v) ==
    IF ~IsString(v) THEN Fail(Msg("value is not a string"))
    ELSE IF self.regex # NoneV /\ v.t = "str"
    THEN LET n == MatchLen(self.regex.chars, v.s)
         IN IF n = 0 \/ (self.regex.anchored /\ n # Len(v.s))
            THEN Fail(Msg("value does not match pattern"))
            ELSE Ok([t |-> "match", s |-> v.s, n |-> n])
    ELSE Ok(v)

\* a default converter that returns what _check returned, as
\* ValidatorBase._converter_default does
String_converter_inherited(self, v) == v

\* String._converter_default: match.group()
String_converter_default(self, v) ==
    IF self.regex # NoneV /\ v.t = "match" THEN StrV(SubSeq(v.s, 1, v.n)) ELSE v

Enum_check(self, v) ==
    IF ~PyIn(v, self.variants) THEN Fail(Msg("value does not match any variant"))
    ELSE Ok(v)

Callable_check(self, v) ==
    IF v.t # "function" THEN Fail(Msg("value is not callable")) ELSE Ok(v)

----------------------------------------------------------------------------
(* repr of a validator *)

\* the characters of the model, in the order Python compares them
Alphabet ==
    <<" ", "+", "-", ".", "0", "1", "2", "3", "4", "5", "6", "7", "8", "9",
      "E", "F", "N", "O", "S", "T", "Y",
      "a", "b", "c", "d", "e", "f", "g", "h", "i", "j", "k", "l", "m",
      "n", "o", "p", "q", "r", "s", "t", "u", "v", "w", "x", "y", "z">>

CharRank(c) == CHOOSE i \in 1..Len(Alphabet) : Alphabet[i] = c

\* a < b on two strs
RECURSIVE StrLess(_, _)
StrLess(a, b) ==
    IF b = <<>> THEN FALSE
    ELSE IF a = <<>> THEN TRUE
    ELSE IF Head(a) = Head(b) THEN StrLess(Tail(a), Tail(b))
    ELSE CharRank(Head(a)) < CharRank(Head(b))

\* Key.__cmp__: keys order by name
KeyLess(k1, k2) == StrLess(k1.name.s, k2.name.s)

\* sorted(keys)
RECURSIVE Sorted(_)
Sorted(keys) ==
    IF keys = <<>> THEN <<>>
    ELSE LET m == CHOOSE i \in 1..Len(keys) :
                      \A j \in 1..Len(keys) :
                          ~KeyLess(keys[j], keys[i]) /\ (j < i => KeyLess(keys[i], keys[j]))
         IN <<keys[m]>> \o Sorted(SubSeq(keys, 1, m - 1) \o SubSeq(keys, m + 1, Len(keys)))

\* Does repr(validator) raise?  Dict.repr sorts its hard keys; Key defines
\* __cmp__ only, which Python 3 ignores, so that sorting two or more keys is
\* a TypeError there.
\* the validator holds a reference to the Forward object
RECURSIVE Mentions(_)
Mentions(self) ==
    CASE self.cls = "Forward" -> TRUE
      [] self.cls \in {"Or", "Tuple"} ->
            \E i \in 1..Len(self.validators) : Mentions(self.validators[i])
      [] self.cls = "List" -> Mentions(self.validator)
      [] self.cls = "Mapping" -> Mentions(self.validator_key) \/ Mentions(self.validator_value)
      [] self.cls = "Dict" ->
            \/ \E i \in 1..Len(self.hard_keys) : Mentions(self.hard_keys[i].validator)
            \/ \E i \in 1..Len(self.soft_keys) : Mentions(self.soft_keys[i])
      [] OTHER -> FALSE

\* memo[id(forward)] when repr reaches the i-th of the validators: set on
\* entry, or by the repr of one of the validators before it
MemoAt(validators, i, memo) == memo \/ \E j \in 1..(i - 1) : Mentions(validators[j])

\* the validators Dict.repr takes the repr of, in its order
Dict_repr_validators(self) ==
    [i \in 1..Len(self.hard_keys) |-> Sorted(self.hard_keys)[i].validator]
    \o [i \in 1..(2 * Len(self.soft_keys)) |->
           IF i % 2 = 1 THEN self.soft_keys[(i + 1) \div 2].validator_key
           ELSE self.soft_keys[i \div 2].validator_value]

\* the first exception in a sequence of exception names; "" if there is none
FirstException(excs) ==
    IF \A i \in 1..Len(excs) : excs[i] = "" THEN ""
    ELSE excs[CHOOSE i \in 1..Len(excs) : excs[i] # "" /\ \A j \in 1..(i - 1) : excs[j] = ""]

\* the exception self.repr(memo) raises; "" if it returns
RECURSIVE repr_exception(_, _)
repr_exception(self, memo) ==
    CASE self.cls \in {"Or", "Tuple"} ->
            FirstException([i \in 1..Len(self.validators) |->
                repr_exception(self.validators[i], MemoAt(self.validators, i, memo))])
      [] self.cls = "List" -> repr_exception(self.validator, memo)
      [] self.cls = "Mapping" ->
            FirstException(<<repr_exception(self.validator_key, memo),
                             repr_exception(self.validator_value,
                                            memo \/ Mentions(self.validator_key))>>)
      [] self.cls = "Dict" ->
            IF PY3 /\ Len(self.hard_keys) >= 2 THEN "TypeError"
            ELSE FirstException([i \in 1..Len(Dict_repr_validators(self)) |->
                    repr_exception(Dict_repr_validators(self)[i],
                                   MemoAt(Dict_repr_validators(self), i, memo))])
      [] self.cls = "Forward" ->
            IF memo THEN ""
            ELSE IF forward = NoneV THEN "AttributeError"
            ELSE repr_exception(forward, TRUE)
      [] OTHER -> ""

\* repr(self) raises
repr_raises(self) == repr_exception(self, FALSE) # ""

\* self.repr(memo)
RECURSIVE ValidatorBase_repr(_, _)
ValidatorBase_repr(self, memo) ==
    CASE self.cls = "Type" -> "<Type(" \o self.type \o ")>"
      [] self.cls \in {"Or", "Tuple"} ->
            "<" \o self.cls \o "("
                \o Join([i \in 1..Len(self.validators) |->
                            ValidatorBase_repr(self.validators[i],
                                               MemoAt(self.validators, i, memo))], ", ")
                \o ")>"
      [] self.cls = "Bool" -> IF self.convert THEN "<Bool(convert)>" ELSE "<Bool>"
      [] self.cls \in {"Int", "Float"} ->
            LET options ==
                    (IF self.gte # NoneV THEN <<"gte=" \o Format(self.gte)>> ELSE <<>>)
                    \o (IF self.lte # NoneV THEN <<"lte=" \o Format(self.lte)>> ELSE <<>>)
                    \o (IF self.gt # NoneV THEN <<"gt=" \o Format(self.gt)>> ELSE <<>>)
                    \o (IF self.lt # NoneV THEN <<"lt=" \o Format(self.lt)>> ELSE <<>>)
            IN IF options = <<>> THEN "<" \o self.cls \o ">"
               ELSE "<" \o self.cls \o ">(" \o Join(options, ", ") \o ")"
      [] self.cls = "String" -> IF self.regex # NoneV THEN "<String(<regex>)>" ELSE "<String>"
      [] self.cls = "List" ->
            LET options ==
                    (IF self.min_length # 0
                     THEN <<"min_length=" \o ToString(self.min_length)>> ELSE <<>>)
                    \o (IF self.max_length # NoneV /\ self.max_length # IntV(0)
                        THEN <<"max_length=" \o Format(self.max_length)>> ELSE <<>>)
            IN "<List(" \o Join(options, ", ") \o (IF options # <<>> THEN " | " ELSE "")
                   \o ValidatorBase_repr(self.validator, memo) \o ")>"
      [] self.cls = "Mapping" ->
            "<Mapping(" \o ValidatorBase_repr(self.validator_key, memo) \o " => "
                \o ValidatorBase_repr(self.validator_value,
                                      memo \/ Mentions(self.validator_key))
                \o ")>"
      [] self.cls = "Dict" ->
            LET hard == Sorted(self.hard_keys)
                reprs == [i \in 1..Len(Dict_repr_validators(self)) |->
                             ValidatorBase_repr(Dict_repr_validators(self)[i],
                                                MemoAt(Dict_repr_validators(self), i, memo))]
            IN "<Dict("
                 \o Join([i \in 1..Len(hard) |-> Format(hard[i].name) \o "=" \o reprs[i]]
                         \o [i \in 1..Len(self.soft_keys) |->
                              reprs[Len(hard) + 2 * i - 1] \o "=" \o reprs[Len(hard) + 2 * i]],
                         ", ")
                 \o ")>"
      [] self.cls = "Forward" ->
            IF memo THEN "<recur>"
            ELSE "<Forward(" \o ValidatorBase_repr(forward, TRUE) \o ")>"
      [] OTHER -> "<" \o self.cls \o ">"

\* ValidatorBase.__repr__
repr(self) == ValidatorBase_repr(self, FALSE)

----------------------------------------------------------------------------
(* Converters: the functions the model attaches with >> *)

RECURSIVE SumTenths(_)
SumTenths(items) == IF items = <<>> THEN 0 ELSE Num10(Head(items)) + SumTenths(Tail(items))

\* the digit of d in 0..9
DigitChar(d) == CHOOSE c \in Digits : DigitVal(c) = d

\* str(n) for an int n
RECURSIVE IntChars(_)
IntChars(n) ==
    IF n < 0 THEN <<"-">> \o IntChars(-n)
    ELSE IF n < 10 THEN <<DigitChar(n)>>
    ELSE IntChars(n \div 10) \o <<DigitChar(n % 10)>>

\* str(x) for a float x of x10 tenths
FloatChars(x10) ==
    IF x10 < 0 THEN <<"-">> \o IntChars((-x10) \div 10) \o <<".", DigitChar((-x10) % 10)>>
    ELSE IntChars(x10 \div 10) \o <<".", DigitChar(x10 % 10)>>

\* converter(value), for the converters "double" (lambda x: x * 2), "triple"
\* (lambda x: x * 3), "sum", "float", "str" (of a number or a str) and
\* "end" (lambda m: m.end())
ApplyConverter(converter, v) ==
    CASE converter = "triple" ->
            (CASE v.t = "int" -> Ok(IntV(3 * v.i))
               [] v.t = "bool" -> Ok(IntV(IF v.b THEN 3 ELSE 0))
               [] v.t = "float" -> Ok(FloatV(3 * v.x10))
               [] v.t = "str" -> Ok(StrV(v.s \o v.s \o v.s))
               [] v.t = "list" -> Ok(ListV(v.items \o v.items \o v.items))
               [] v.t = "tuple" -> Ok(TupleV(v.items \o v.items \o v.items))
               [] OTHER -> Raise("TypeError"))
      [] converter = "float" ->
            (CASE IsNumber(v) -> Ok(FloatV(Num10(v)))
               [] v.t = "str" ->
                    IF ParseFloat(v.s).ok THEN Ok(FloatV(ParseFloat(v.s).x10))
                    ELSE Raise("ValueError")
               [] OTHER -> Raise("TypeError"))
      [] converter = "str" ->
            (CASE v.t = "int" -> Ok(StrV(IntChars(v.i)))
               [] v.t = "float" -> Ok(StrV(FloatChars(v.x10)))
               [] v.t = "str" -> Ok(v))
      [] converter = "end" ->
            IF v.t = "match" THEN Ok(IntV(v.n)) ELSE Raise("AttributeError")
      [] converter = "double" ->
            (CASE v.t = "int" -> Ok(IntV(2 * v.i))
               [] v.t = "bool" -> Ok(IntV(IF v.b THEN 2 ELSE 0))
               [] v.t = "float" -> Ok(FloatV(2 * v.x10))
               [] v.t = "str" -> Ok(StrV(v.s \o v.s))
               [] v.t = "list" -> Ok(ListV(v.items \o v.items))
               [] v.t = "tuple" -> Ok(TupleV(v.items \o v.items))
               [] OTHER -> Raise("TypeError"))
      [] converter = "sum" ->
            IF v.t \in {"list", "tuple"} /\ \A i \in 1..Len(v.items) : IsNumber(v.items[i])
            THEN IF \A i \in 1..Len(v.items) : v.items[i].t \in {"int", "bool"}
                 THEN Ok(IntV(SumTenths(v.items) \div 10))
                 ELSE Ok(FloatV(SumTenths(v.items)))
            ELSE Raise("TypeError")

RECURSIVE ApplyConverters(_, _)
ApplyConverters(converters, v) ==
    IF converters = <<>> THEN Ok(v)
    ELSE LET r == ApplyConverter(Head(converters), v)
         IN IF IsOk(r) THEN ApplyConverters(Tail(converters), r.val) ELSE r

\* ValidatorBase._converter_default, which String overrides
converter_default(self, v) ==
    IF self.cls = "String" THEN String_converter_default(self, v) ELSE v

\* validator >> converter
rshift(self, converter) == [self EXCEPT !.converters = Append(@, converter)]

\* copy.deepcopy(self) gives a new object, except that Forward.__deepcopy__
\* returns the Forward itself
deepcopy_is_self(self) == self.cls = "Forward"

\* ValidatorBase.__rshift__: obj is what it returns, self is the validator
\* it was called on as obj.append(other) leaves it
ValidatorBase_rshift(self, other) ==
    [obj |-> rshift(self, other),
     self |-> IF deepcopy_is_self(self) THEN rshift(self, other) ELSE self]

----------------------------------------------------------------------------
(* check.  Every X_run(self, value) runs the handler X._check and returns  *)
(* both what it returned or raised (result) and the locals it left.        *)

RECURSIVE check(_, _)

\* the first index of rs whose result is not a DataError; 0 if there is none
FirstNotFail(rs) ==
    IF \E i \in 1..Len(rs) : ~IsFail(rs[i])
    THEN CHOOSE i \in 1..Len(rs) : ~IsFail(rs[i]) /\ \A j \in 1..(i - 1) : IsFail(rs[j])
    ELSE 0

\* errors.setdefault(key, []).append(error)
SetDefaultAppend(errors, k, err) ==
    Put(errors, k, (IF HasKey(errors, k) THEN Get(errors, k) ELSE <<>>) \o <<err>>)

\* the loop that turns every list of one error into that error and every
\* longer list into DataError(dict(enumerate(list)))
Unlist(errors) ==
    [i \in 1..Len(errors) |->
        <<errors[i][1],
          IF Len(errors[i][2]) = 1 THEN errors[i][2][1]
          ELSE ErrMap(Enumerate(errors[i][2]))>>]

\* try: validator.check(value), except DataError: ... repr(validator) ...
\* r is what validator.check(value) gave; the except clause evaluates
\* repr(validator), which can raise in its turn
TryCandidate(validator, r) ==
    IF IsFail(r) /\ repr_raises(validator) THEN Raise(repr_exception(validator, FALSE)) ELSE r

\* the errors dict of Or._check after the candidates 1..n have failed
RECURSIVE Or_errors(_, _, _)
Or_errors(validators, rs, n) ==
    IF n = 0 THEN <<>>
    ELSE SetDefaultAppend(Or_errors(validators, rs, n - 1),
                          Text(repr(validators[n])), rs[n].err)

\* Or._check, given what trying each candidate gives
Or_loop(validators, rs) ==
    LET stop == FirstNotFail(rs)
    IN IF stop # 0
       THEN [result |-> rs[stop], tried |-> stop,
             errors |-> Or_errors(validators, rs, stop - 1)]
       ELSE [result |-> Fail(ErrMap(Unlist(Or_errors(validators, rs, Len(rs))))),
             tried |-> Len(rs),
             errors |-> Unlist(Or_errors(validators, rs, Len(rs)))]

Or_run(self, v) ==
    Or_loop(self.validators,
            [i \in 1..Len(self.validators) |->
                TryCandidate(self.validators[i], check(self.validators[i], v))])

Or_check(self, v) == Or_run(self, v).result

\* the values of the results of rs that are successes, in order
RECURSIVE Collected(_)
Collected(rs) ==
    IF rs = <<>> THEN <<>>
    ELSE (IF IsOk(Head(rs)) THEN <<Head(rs).val>> ELSE <<>>) \o Collected(Tail(rs))

\* a loop that stops at the first element that fails: only that index is reported
IndexErrors_first(rs, n) ==
    IF \E i \in 1..n : IsFail(rs[i])
    THEN LET first == CHOOSE i \in 1..n : IsFail(rs[i]) /\ \A j \in 1..(i - 1) : ~IsFail(rs[j])
         IN <<<<IntV(first - 1), rs[first].err>>>>
    ELSE <<>>

\* the errors of the results 1..n of rs that are DataErrors, keyed by index
RECURSIVE IndexErrors(_, _)
IndexErrors(rs, n) ==
    IF n = 0 THEN <<>>
    ELSE IndexErrors(rs, n - 1)
           \o (IF IsFail(rs[n]) THEN <<<<IntV(n - 1), rs[n].err>>>> ELSE <<>>)

\* the loop shared by List._check and Tuple._check, given the results rs of
\* checking the items; another exception than DataError ends it
ItemsLoop(rs) ==
    LET stop == FirstRaise(rs)
        done == IF stop # 0 THEN stop - 1 ELSE Len(rs)
        collected == Collected(SubSeq(rs, 1, done))
        errors == IndexErrors(rs, done)
    IN [result |-> IF stop # 0 THEN rs[stop]
                   ELSE IF errors # <<>> THEN Fail(ErrMap(errors))
                   ELSE Ok(collected),
        collected |-> collected,
        errors |-> errors]

\* a handler that raises DataError(message) before its loop
Reject(message) == [result |-> Fail(Msg(message)), collected |-> <<>>, errors |-> <<>>]

\* return result / return tuple(result)
Returning(loop, t) ==
    [loop EXCEPT !.result = IF IsOk(@) THEN Ok([t |-> t, items |-> @.val]) ELSE @]

\* len(value) < self._min_length
TooShort(self, n) == n < self.min_length

\* a maximum that is itself refused
TooLong_exclusive(self, n) == self.max_length # NoneV /\ n >= self.max_length.i

\* self._max_length is not None and len(value) > self._max_length
TooLong(self, n) == self.max_length # NoneV /\ n > self.max_length.i

List_run(self, v) ==
    IF v.t # "list" THEN Reject("value is not list")
    ELSE IF TooShort(self, Len(v.items))
    THEN Reject("list length is less than " \o ToString(self.min_length))
    ELSE IF TooLong(self, Len(v.items))
    THEN Reject("list length is greater than " \o Format(self.max_length))
    ELSE Returning(ItemsLoop([i \in 1..Len(v.items) |-> check(self.validator, v.items[i])]),
                   "list")

List_check(self, v) == List_run(self, v).result

\* tuple(value)
ToTuple(v) ==
    CASE v.t \in {"list", "tuple"} -> [ok |-> TRUE, items |-> v.items]
      [] v.t = "str" -> [ok |-> TRUE, items |-> [i \in 1..Len(v.s) |-> StrV(<<v.s[i]>>)]]
      [] v.t = "dict" -> [ok |-> TRUE, items |-> [i \in 1..Len(v.pairs) |-> v.pairs[i][1]]]
      [] OTHER -> [ok |-> FALSE]

\* an arity test that lets items beyond the last validator through
WrongArity_short(self, items) == Len(items) < Len(self.validators)

\* len(value) != len(self._validators)
WrongArity(self, items) == Len(items) # Len(self.validators)

Tuple_run(self, v) ==
    IF ~ToTuple(v).ok THEN Reject("value must be convertable to tuple")
    ELSE IF WrongArity(self, ToTuple(v).items)
    THEN Reject("value must contain exact " \o ToString(Len(self.validators)) \o " items")
    ELSE Returning(ItemsLoop([i \in 1..Len(self.validators) |->
                                 check(self.validators[i], ToTuple(v).items[i])]),
                   "tuple")

Tuple_check(self, v) == Tuple_run(self, v).result

\* hash(value) raises TypeError
Unhashable(v) == v.t \in {"list", "dict"}

\* one turn of the loop of Mapping._check on the entry of key `key`, from
\* the locals st; kr and vr are what checking the key and the value gave
Mapping_step(st, key, kr, vr) ==
    LET pair_errors == (IF IsFail(kr) THEN <<<<Text("key"), kr.err>>>> ELSE <<>>)
                       \o (IF IsFail(vr) THEN <<<<Text("value"), vr.err>>>> ELSE <<>>)
    IN IF IsRaise(kr) THEN [st EXCEPT !.raised = kr]
       ELSE IF IsRaise(vr) THEN [st EXCEPT !.raised = vr]
       ELSE IF pair_errors # <<>>
       THEN [st EXCEPT !.errors = Put(@, key, ErrMap(pair_errors))]
       ELSE IF Unhashable(kr.val) THEN [st EXCEPT !.raised = Raise("TypeError")]
       ELSE [st EXCEPT !.checked_mapping = Put(@, kr.val, vr.val)]

\* a loop that does not check the value of an entry whose key has failed
Mapping_next_lazy(self, st, pair) ==
    IF st.raised # NoneV THEN st
    ELSE IF IsFail(check(self.validator_key, pair[1]))
    THEN Mapping_step(st, pair[1], check(self.validator_key, pair[1]), Ok(pair[2]))
    ELSE Mapping_step(st, pair[1], check(self.validator_key, pair[1]),
                      check(self.validator_value, pair[2]))

\* the next turn of the loop, unless an exception has ended it
Mapping_next(self, st, pair) ==
    IF st.raised # NoneV THEN st
    ELSE Mapping_step(st, pair[1], check(self.validator_key, pair[1]),
                      check(self.validator_value, pair[2]))

RECURSIVE Mapping_loop(_, _, _)
Mapping_loop(self, pairs, n) ==
    IF n = 0 THEN [checked_mapping |-> <<>>, errors |-> <<>>, raised |-> NoneV]
    ELSE Mapping_next(self, Mapping_loop(self, pairs, n - 1), pairs[n])

\* the end of Mapping._check, from the locals st its loop left
Mapping_end(st) ==
    [result |-> IF st.raised # NoneV THEN st.raised
                ELSE IF st.errors # <<>> THEN Fail(ErrMap(st.errors))
                ELSE Ok(DictV(st.checked_mapping)),
     checked_mapping |-> st.checked_mapping,
     errors |-> st.errors]

Mapping_run(self, mapping) ==
    IF mapping.t # "dict"
    THEN [result |-> Raise("AttributeError"), checked_mapping |-> <<>>, errors |-> <<>>]
    ELSE Mapping_end(Mapping_loop(self, mapping.pairs, Len(mapping.pairs)))

Mapping_check(self, mapping) == Mapping_run(self, mapping).result

----------------------------------------------------------------------------
(* Key and Dict *)

\* bool(value)
Truthy(v) ==
    CASE v.t = "none" -> FALSE
      [] v.t = "bool" -> v.b
      [] v.t = "int" -> v.i # 0
      [] v.t = "float" -> v.x10 # 0
      [] v.t = "str" -> v.s # <<>>
      [] v.t \in {"list", "tuple"} -> v.items # <<>>
      [] v.t = "dict" -> v.pairs # <<>>
      [] OTHER -> TRUE

\* a function of no argument that returns `returns`
Function(f, returns) == [t |-> "function", f |-> f, returns |-> returns]

\* Key._get_name: self.to_name or self.name
Key_get_name(self) == IF Truthy(self.to_name) THEN self.to_name ELSE self.name

\* a lookup that leaves the entry in data
Key_take_keep(self, data) == data

\* data as data.pop(self.name) leaves it
Key_take(self, data) == Remove(data, self.name)

\* a default that is stored as it is, without validation
Key_default_unchecked(self, data) ==
    [yields |-> <<<<Key_get_name(self),
                   Ok(IF self.default.t = "function" THEN self.default.returns
                      ELSE self.default)>>>>,
     data |-> data,
     called |-> IF self.default.t = "function" THEN 1 ELSE 0]

\* Key.pop for an absent key that has a default: the default is called if
\* it is callable, then validated
Key_default(self, data) ==
    IF self.default.t = "function"
    THEN [yields |-> <<<<Key_get_name(self), check(self.validator, self.default.returns)>>>>,
          data |-> data, called |-> 1]
    ELSE [yields |-> <<<<Key_get_name(self), check(self.validator, self.default)>>>>,
          data |-> data, called |-> 0]

\* an "is required" that is yielded under the output name
Key_required_renamed(self, data) ==
    [yields |-> <<<<Key_get_name(self), Fail(Msg("is required"))>>>>,
     data |-> data, called |-> 0]

\* yield (self.name, DataError("is required"))
Key_required(self, data) ==
    [yields |-> <<<<self.name, Fail(Msg("is required"))>>>>, data |-> data, called |-> 0]

\* a generator that looks at the default before it looks at optional
Key_absent_default_first(self, data) ==
    IF self.default # Undefined THEN Key_default(self, data)
    ELSE IF self.optional THEN [yields |-> <<>>, data |-> data, called |-> 0]
    ELSE Key_required(self, data)

\* Key.pop when self.name is not in data
Key_absent(self, data) ==
    IF self.optional THEN [yields |-> <<>>, data |-> data, called |-> 0]
    ELSE IF self.default # Undefined THEN Key_default(self, data)
    ELSE Key_required(self, data)

\* Key.pop(data): the pairs the generator yields (at most one), data as the
\* generator leaves it, and how many times it called the default
Key_pop(self, data) ==
    IF HasKey(data, self.name)
    THEN [yields |-> <<<<Key_get_name(self), check(self.validator, Get(data, self.name))>>>>,
          data |-> Key_take(self, data), called |-> 0]
    ELSE Key_absent(self, data)

\* the body of `for k, v in key.pop(data)`, from the locals st; p is what
\* key.pop(data) did
Dict_hard_step(st, p) ==
    LET after == [st EXCEPT !.data = p.data, !.called = @ + p.called]
    IN IF p.yields = <<>> THEN after
       ELSE IF IsRaise(p.yields[1][2]) THEN [after EXCEPT !.raised = p.yields[1][2]]
       ELSE IF IsFail(p.yields[1][2])
       THEN [after EXCEPT !.errors = Put(@, p.yields[1][1], p.yields[1][2].err)]
       ELSE [after EXCEPT !.collect = Put(@, p.yields[1][1], p.yields[1][2].val)]

\* the turn of the hard key `key`, unless an exception has ended the loop;
\* trace holds the locals before the first key and after each earlier one
Dict_hard_next(trace, key) ==
    Append(trace,
           IF trace[Len(trace)].raised # NoneV THEN trace[Len(trace)]
           ELSE Dict_hard_step(trace[Len(trace)], Key_pop(key, trace[Len(trace)].data)))

\* the locals of Dict._check before its first hard key and after each one
RECURSIVE Dict_hard_loop(_, _, _)
Dict_hard_loop(hard_keys, data, n) ==
    IF n = 0
    THEN <<[data |-> data, collect |-> <<>>, errors |-> <<>>, called |-> 0, raised |-> NoneV]>>
    ELSE Dict_hard_next(Dict_hard_loop(hard_keys, data, n - 1), hard_keys[n])

\* the errors of the soft keys 1..n for the entry of key k, by repr
RECURSIVE Dict_item_errors(_, _, _, _)
Dict_item_errors(soft_keys, rs, k, n) ==
    IF n = 0 THEN <<>>
    ELSE SetDefaultAppend(Dict_item_errors(soft_keys, rs, k, n - 1),
                          Text(repr(soft_keys[n])), Get(rs[n].err.pairs, k))

\* one turn of the loop of Dict._check over what the hard keys left, when
\* there are soft keys; rs is what trying each soft key on {k: v} gave
Dict_soft_step(soft_keys, st, k, rs) ==
    LET stop == FirstNotFail(rs)
    IN IF stop # 0
       THEN IF IsRaise(rs[stop]) THEN [st EXCEPT !.raised = rs[stop]]
            ELSE [st EXCEPT !.collect = Put(@, rs[stop].val.pairs[1][1], rs[stop].val.pairs[1][2])]
       ELSE [st EXCEPT !.errors =
                Put(@, k, ErrMap(Unlist(Dict_item_errors(soft_keys, rs, k, Len(soft_keys)))))]

\* a turn that keys the error by the repr of the key
Dict_leftover_step_repr(st, k) ==
    [st EXCEPT !.errors = Put(@, Text(PyRepr(k)), Msg(PyRepr(k) \o " is not allowed key"))]

\* one turn of that loop when there is no soft key
Dict_leftover_step(st, k) == [st EXCEPT !.errors = Put(@, k, Msg(PyRepr(k) \o " is not allowed key"))]

\* the turn of the leftover entry `pair`, unless an exception has ended the loop
Dict_rest_next(soft_keys, st, pair) ==
    IF st.raised # NoneV THEN st
    ELSE IF soft_keys # <<>>
    THEN Dict_soft_step(soft_keys, st, pair[1],
                        [i \in 1..Len(soft_keys) |->
                            TryCandidate(soft_keys[i], check(soft_keys[i], DictV(<<pair>>)))])
    ELSE Dict_leftover_step(st, pair[1])

RECURSIVE Dict_rest_loop(_, _, _, _)
Dict_rest_loop(soft_keys, st0, data, n) ==
    IF n = 0 THEN st0
    ELSE Dict_rest_next(soft_keys, Dict_rest_loop(soft_keys, st0, data, n - 1), data[n])

\* the end of Dict._check, from the locals st its loops left; value is the
\* caller's dict as the call leaves it: the working copy if that is the
\* same object, else the input untouched
Dict_end(trace, st, v, data) ==
    [result |-> IF st.raised # NoneV THEN st.raised
                ELSE IF st.errors # <<>> THEN Fail(ErrMap(st.errors))
                ELSE Ok(DictV(st.collect)),
     trace |-> trace,
     collect |-> st.collect,
     errors |-> st.errors,
     called |-> st.called,
     value |-> IF data.same THEN DictV(trace[Len(trace)].data) ELSE v]

\* Dict._check after its loop over the hard keys
Dict_rest(soft_keys, trace, v, data) ==
    Dict_end(trace,
             Dict_rest_loop(soft_keys, trace[Len(trace)], trace[Len(trace)].data,
                            Len(trace[Len(trace)].data)),
             v, data)

\* a working copy that is the caller's dict itself
WorkingCopy_alias(v) == [pairs |-> v.pairs, same |-> TRUE]

\* data = copy.copy(value): another dict, with the entries of value
WorkingCopy(v) == [pairs |-> v.pairs, same |-> FALSE]

\* Dict._check from its working copy on
Dict_loops(self, v, data) ==
    Dict_rest(self.soft_keys, Dict_hard_loop(self.hard_keys, data.pairs, Len(self.hard_keys)),
              v, data)

Dict_run(self, v) ==
    IF v.t # "dict"
    THEN [result |-> Fail(Msg("value is not dict")), trace |-> <<>>,
          collect |-> <<>>, errors |-> <<>>, called |-> 0, value |-> v]
    ELSE Dict_loops(self, v, WorkingCopy(v))

Dict_check(self, v) == Dict_run(self, v).result

\* the greatest element of a set of naturals; 0 for the empty set
MaxOf(S) == IF S = {} THEN 0 ELSE CHOOSE i \in S : \A j \in S : j <= i

\* the value Key.pop validates for a key that is absent and has a default
Key_default_value(self) ==
    IF self.default.t = "function" THEN self.default.returns ELSE self.default

\* Unfold(self, v, fuel): the most calls of Forward._check that are on the
\* stack at one time while self.check(v) runs, counted up to fuel.  It
\* follows the calls check makes: an Or and the soft keys of a Dict try
\* their validators until one raises no DataError, the containers check
\* every child.
RECURSIVE Unfold(_, _, _)
RECURSIVE TriedUnfold(_, _, _, _)

\* the validator i was tried with u calls on the stack
TriedNext(validators, v, fuel, i, u) ==
    IF u >= fuel \/ ~IsFail(check(validators[i], v)) THEN u
    ELSE MaxOf({u, TriedUnfold(validators, v, fuel, i + 1)})

TriedUnfold(validators, v, fuel, i) ==
    IF i > Len(validators) THEN 0
    ELSE TriedNext(validators, v, fuel, i, Unfold(validators[i], v, fuel))

\* the turn of a hard key in Dict._check
Key_unfold(self, pairs, fuel) ==
    IF HasKey(pairs, self.name) THEN Unfold(self.validator, Get(pairs, self.name), fuel)
    ELSE IF self.optional \/ self.default = Undefined THEN 0
    ELSE Unfold(self.validator, Key_default_value(self), fuel)

\* the entries of a dict that no hard key takes
Leftover(hard_keys, pairs) ==
    {i \in 1..Len(pairs) :
        \A n \in 1..Len(hard_keys) : ~PyEq(hard_keys[n].name, pairs[i][1])}

Unfold(self, v, fuel) ==
    IF fuel = 0 THEN 0
    ELSE CASE self.cls = "Forward" ->
                IF forward = NoneV THEN 1 ELSE 1 + Unfold(forward, v, fuel - 1)
           [] self.cls = "Or" -> TriedUnfold(self.validators, v, fuel, 1)
           [] self.cls = "List" ->
                IF v.t # "list" \/ TooShort(self, Len(v.items)) \/ TooLong(self, Len(v.items))
                THEN 0
                ELSE MaxOf({Unfold(self.validator, v.items[i], fuel) : i \in 1..Len(v.items)})
           [] self.cls = "Tuple" ->
                IF ~ToTuple(v).ok THEN 0
                ELSE IF WrongArity(self, ToTuple(v).items) THEN 0
                ELSE MaxOf({Unfold(self.validators[i], ToTuple(v).items[i], fuel) :
                               i \in 1..Len(self.validators)})
           [] self.cls = "Mapping" ->
                IF v.t # "dict" THEN 0
                ELSE MaxOf({Unfold(self.validator_key, v.pairs[i][1], fuel) :
                               i \in 1..Len(v.pairs)}
                           \cup {Unfold(self.validator_value, v.pairs[i][2], fuel) :
                                     i \in 1..Len(v.pairs)})
           [] self.cls = "Dict" ->
                IF v.t # "dict" THEN 0
                ELSE MaxOf({Key_unfold(self.hard_keys[n], v.pairs, fuel) :
                               n \in 1..Len(self.hard_keys)}
                           \cup {TriedUnfold(self.soft_keys, DictV(<<v.pairs[i]>>), fuel, 1) :
                                     i \in Leftover(self.hard_keys, v.pairs)})
           [] OTHER -> 0

\* the interpreter ends a recursion that goes this deep with a
\* RuntimeError; the model counts the calls of Forward._check
RecursionLimit == 4

RecursionError == Raise("RuntimeError: maximum recursion depth exceeded")

\* check(self, v) recurses until the interpreter stops it
Overflows(self, v) == Unfold(self, v, RecursionLimit) >= RecursionLimit

\* self._check(value)
\* an unbound Forward that fails with a DataError
Forward_check_data_error(self, v) ==
    IF forward = NoneV THEN Fail(Msg("validator for Forward is not specified"))
    ELSE IF Overflows(self, v) THEN RecursionError
    ELSE check(forward, v)

\* a bound Forward that accepts every value without delegating
Forward_check_accepting(self, v) ==
    IF forward = NoneV THEN Raise("RuntimeError") ELSE Ok(v)

\* Forward._check; a recursion without end is cut by the interpreter
Forward_check(self, v) ==
    IF forward = NoneV THEN Raise("RuntimeError")
    ELSE IF Overflows(self, v) THEN RecursionError
    ELSE check(forward, v)

\* depth: the most calls of Forward._check on the stack at one time
Forward_run(self, v) ==
    [result |-> Forward_check(self, v), depth |-> Unfold(self, v, RecursionLimit)]

handler(self, v) ==
    CASE self.cls = "Type" -> Type_check(self, v)
      [] self.cls = "Any" -> Any_check(self, v)
      [] self.cls = "Null" -> Null_check(self, v)
      [] self.cls = "Bool" -> Bool_check(self, v)
      [] self.cls \in {"Int", "Float"} -> NumberBase_check(self, v)
      [] self.cls = "Atom" -> Atom_check(self, v)
      [] self.cls = "String" -> String_check(self, v)
      [] self.cls = "Enum" -> Enum_check(self, v)
      [] self.cls = "Callable" -> Callable_check(self, v)
      [] self.cls = "Or" -> Or_check(self, v)
      [] self.cls = "List" -> List_check(self, v)
      [] self.cls = "Tuple" -> Tuple_check(self, v)
      [] self.cls = "Mapping" -> Mapping_check(self, v)
      [] self.cls = "Dict" -> Dict_check(self, v)
      [] self.cls = "Forward" -> Forward_check(self, v)

\* the converters applied last attached first
convert_reversed(self, r) ==
    IF ~IsOk(r) THEN r
    ELSE IF self.converters # <<>>
    THEN ApplyConverters([i \in 1..Len(self.converters) |->
                             self.converters[Len(self.converters) + 1 - i]], r.val)
    ELSE Ok(converter_default(self, r.val))

\* ValidatorBase.check after self._check(value) gave r: the converters, or
\* the default converter when there is none
convert(self, r) ==
    IF ~IsOk(r) THEN r
    ELSE IF self.converters # <<>> THEN ApplyConverters(self.converters, r.val)
    ELSE Ok(converter_default(self, r.val))

\* the _converters list of the Forward object, which every reference to it
\* shares: that of the schema when the schema is the Forward itself
Forward_converters == IF vdr.cls = "Forward" THEN vdr.converters ELSE <<>>

\* the validator a reference stands for
Referent(self) ==
    IF self.cls = "Forward" THEN [self EXCEPT !.converters = Forward_converters] ELSE self

\* ValidatorBase.check
check(self, v) == convert(Referent(self), handler(self, v))

\* ValidatorBase.__or__: Or(self, other)
ValidatorBase_or(self, other) == Or_init(<<self, other>>)

\* Or.__or__: a new Or of the candidates of self and the validator given
Or_or(self, validator) == Or_init(Append(self.validators, validator))

\* left | right, for validator instances
or(left, right) ==
    IF left.cls = "Or" THEN Or_or(left, right) ELSE ValidatorBase_or(left, right)

\* catch_error: what check returns, or the DataError it raised
caught(r) == IF IsFail(r) THEN Ok(r.err) ELSE r

catch_error(validator, v) == caught(check(validator, v))

\* extract_error after catch_error gave r
extracted(r) ==
    IF IsOk(r) /\ IsDataError(r.val) THEN Ok(DataError_as_dict(r.val)) ELSE r

extract_error(validator, v) == extracted(catch_error(validator, v))

\* Dict.__init__.  items are the (key, validator) pairs of the arguments in
\* the order written; a key is a Key, a name or a validator.  The pairs are
\* merged into one dict (a name written twice keeps its last validator) and
\* that dict is iterated: order is the permutation its iteration applies.
RECURSIVE Dict_merge(_, _)
Dict_merge(items, n) ==
    IF n = 0 THEN <<>>
    ELSE LET merged == Dict_merge(items, n - 1)
             key == items[n][1]
             same == {i \in 1..Len(merged) : "t" \in DOMAIN key /\ merged[i][1] = key}
         IN IF same # {}
            THEN [merged EXCEPT ![CHOOSE i \in same : TRUE] = items[n]]
            ELSE Append(merged, items[n])

IsSoftKey(item) == "cls" \in DOMAIN item[1] /\ item[1].cls # "Key"
IsHardKey(item) == ~IsSoftKey(item)

\* Key(key) for a plain name, and key.validator = validator
HardKey(item) ==
    IF "cls" \in DOMAIN item[1]
    THEN [item[1] EXCEPT !.validator = item[2]]
    ELSE [cls |-> "Key", name |-> item[1], to_name |-> NoneV, default |-> Undefined,
          optional |-> FALSE, validator |-> item[2]]

\* Mapping(key, validator)
SoftKey(item) ==
    [cls |-> "Mapping", converters |-> <<>>,
     validator_key |-> item[1], validator_value |-> item[2]]

\* the loop of Dict.__init__ over the merged dict as it is iterated
Dict_keys(iterated) ==
    [cls |-> "Dict", converters |-> <<>>,
     hard_keys |-> [i \in 1..Len(SelectSeq(iterated, IsHardKey)) |->
                       HardKey(SelectSeq(iterated, IsHardKey)[i])],
     soft_keys |-> [i \in 1..Len(SelectSeq(iterated, IsSoftKey)) |->
                       SoftKey(SelectSeq(iterated, IsSoftKey)[i])]]

\* iteritems(validators)
Iterate(merged, order) == [i \in 1..Len(merged) |-> merged[order[i]]]

Dict_init(items, order) == Dict_keys(Iterate(Dict_merge(items, Len(items)), order))

\* ValidatorBase._ensure_validator, for a validator instance and for a
\* value that is neither a validator, nor a class, nor callable
ensure_validator(validator) ==
    IF "cls" \in DOMAIN validator THEN Ok(validator) ELSE Raise("RuntimeError")

\* provide that binds whether or not the Forward is bound
Forward_provide_rebind(validator) ==
    [result |-> IF IsOk(ensure_validator(validator)) THEN Ok(NoneV)
                ELSE ensure_validator(validator),
     validator |-> IF IsOk(ensure_validator(validator)) THEN validator ELSE forward]

\* Forward.provide: what it returns or raises, and self.validator after it
Forward_provide(validator) ==
    IF forward # NoneV
    THEN [result |-> Raise("RuntimeError"), validator |-> forward]
    ELSE IF IsOk(ensure_validator(validator))
    THEN [result |-> Ok(NoneV), validator |-> ensure_validator(validator).val]
    ELSE [result |-> ensure_validator(validator), validator |-> forward]

\* make_optional that marks every hard key, whatever names it is given
Dict_make_optional_all(self, args) ==
    [self EXCEPT !.hard_keys =
        [i \in 1..Len(self.hard_keys) |-> [self.hard_keys[i] EXCEPT !.optional = TRUE]]]

\* Dict.make_optional: the Dict after the loop over its hard keys
Dict_make_optional(self, args) ==
    [self EXCEPT !.hard_keys =
        [i \in 1..Len(self.hard_keys) |->
            IF args = <<>> \/ self.hard_keys[i].name \in Range(args)
            THEN [self.hard_keys[i] EXCEPT !.optional = TRUE]
            ELSE self.hard_keys[i]]]

\* `return self`: the validator the method was called on
Self == [t |-> "ref", to |-> "self"]

----------------------------------------------------------------------------
(* The schemas and the inputs of the model *)

sFoo == StrV(<<"f", "o", "o">>)
sBar == StrV(<<"b", "a", "r">>)
sTest == StrV(<<"t", "e", "s", "t">>)
s3 == StrV(<<"3">>)
sX == StrV(<<"x">>)

\* all sequences over S of length 0..n
SeqsUpTo(S, n) == UNION {[1..k -> S] : k \in 0..n}

\* all orders of 1..n
Perms(n) == {p \in [1..n -> 1..n] : \A i, j \in 1..n : p[i] = p[j] => i = j}

\* all dicts of at most n of the entries P, no key twice
DictsUpTo(P, n) ==
    {DictV(d) : d \in {d \in SeqsUpTo(P, n) :
                          \A i, j \in 1..Len(d) : PyEq(d[i][1], d[j][1]) => i = j}}

DictOneKey == Dict_init(<<<<sFoo, Int_init>>>>, <<1>>)
DictTwoKeys == Dict_init(<<<<sFoo, Int_init>>, <<sTest, Int_init>>>>, <<1, 2>>)

OrCandidates ==
    {Int_init, String_init, Null_init, Atom_init(sBar), Atom_init(s3),
     List_init(Int_init, 0, NoneV), DictOneKey, DictTwoKeys}

OrSchemas ==
    {Or_init(vs) : vs \in [1..2 -> OrCandidates]}
    \cup {Or_init(<<Atom_init(sBar), Int_init, Atom_init(s3)>>),
          Or_init(<<Atom_init(sBar), Atom_init(s3), Atom_init(sX)>>),
          Or_init(<<Null_init, Or_init(<<Atom_init(sBar), Atom_init(s3)>>)>>)}

ListItems == {s3, sX}

ListSchemas ==
    {List_init(v, b[1], b[2]) :
        v \in {Int_init, String_init, Or_init(<<Null_init, Int_init>>)},
        b \in {<<0, NoneV>>, <<1, NoneV>>, <<0, IntV(2)>>, <<2, IntV(3)>>}}
    \cup {rshift(List_init(Int_init, 0, NoneV), "sum"),
          List_init(List_init(Int_init, 1, NoneV), 0, NoneV)}

ListInputs ==
    {ListV(l) : l \in SeqsUpTo(ListItems, MaxLen)}
    \cup {ListV(<<ListV(<<sX>>), ListV(<<>>), ListV(<<s3>>)>>), sX, NoneV,
          TupleV(<<IntV(1)>>), ListV(<<FloatV(35)>>), ListV(<<s3, FloatV(35), sX>>),
          ListV(<<FloatV(35), sX>>)}

TupleSchemas ==
    {Tuple_init(<<Int_init, Int_init, String_init>>),
     Tuple_init(<<Int_init, String_init>>),
     Tuple_init(<<String_init>>),
     Tuple_init(<<>>)}

TupleInputs ==
    {ListV(l) : l \in SeqsUpTo(ListItems, MaxLen)}
    \cup {TupleV(<<s3, sX>>), StrV(<<"3", "x">>), DictV(<<<<sX, IntV(1)>>>>), NoneV, IntV(1),
          ListV(<<FloatV(35), sX>>), ListV(<<sX, s3, FloatV(35)>>)}

MappingSchemas ==
    {Mapping_init(k, v) : k \in {Int_init, String_init, Any_init},
                          v \in {Int_init, String_init}}

MappingInputs ==
    DictsUpTo(({s3, IntV(3), sX} \X {IntV(1), sX}) \ {<<IntV(3), sX>>}, MaxEntries)
    \cup {IntV(1), ListV(<<IntV(1)>>)}

\* the hard key "test" in all its forms
TestKeys ==
    {Key_init(sTest, default, FALSE, to_name, Any_init) :
        default \in {Undefined, IntV(1), Function("three", s3), Function("x", sX)},
        to_name \in {NoneV, sBar}}
    \cup {Key_init(sTest, default, TRUE, NoneV, Any_init) : default \in {Undefined, IntV(1)}}

\* what Dict.__init__ is given: (key, validator) pairs in the order written
DictDeclarations ==
    {<<<<Key_init(sFoo, Undefined, FALSE, NoneV, Any_init), Atom_init(sBar)>>, <<k, Int_init>>>> :
        k \in TestKeys}
    \cup {<<<<k, Int_init>>, <<sBar, Int_init>>>> : k \in TestKeys}
    \cup {<<<<sFoo, Atom_init(sBar)>>>>,
          <<<<sFoo, Atom_init(sBar)>>, <<String_init, Int_init>>>>,
          <<<<sFoo, Forward_init>>, <<sTest, Int_init>>>>,
          <<<<String_init, Forward_init>>>>,
          <<<<sFoo, Atom_init(sBar)>>, <<String_init, DictTwoKeys>>>>,
          <<<<String_init, String_init>>,
            <<String_init_regex({"a", "b", "r", "x"}, TRUE), Int_init>>>>,
          <<<<sFoo, Int_init>>, <<sFoo, Atom_init(sBar)>>,
            <<Key_init(sTest, Undefined, TRUE, NoneV, Any_init), Int_init>>>>,
          <<<<String_init_regex({"3"}, TRUE), Int_init>>,
            <<String_init_regex({"a", "b", "r", "x"}, TRUE), String_init>>>>}

sName == StrV(<<"n", "a", "m", "e">>)
sChildren == StrV(<<"c", "h", "i", "l", "d", "r", "e", "n">>)

\* Dict(name=String, children=List[node]), as its arguments are iterated
NodeDict(order) ==
    Dict_init(<<<<sName, String_init>>, <<sChildren, List_init(Forward_init, 0, NoneV)>>>>, order)

\* {"name": name, "children": children}
Node(name, children) == DictV(<<<<sName, name>>, <<sChildren, children>>>>)

\* what stands where a node is expected: a node without children, one
\* whose name is no string, and a value that is no dict
Leaves == {Node(sFoo, ListV(<<>>)), Node(IntV(1), ListV(<<>>)), IntV(1)}

\* nodes of depth one, and some of depth two
NodeInputs ==
    Leaves
    \cup {Node(name, ListV(l)) : name \in {sFoo, IntV(1)},
                                   l \in SeqsUpTo({Node(sFoo, ListV(<<>>)), IntV(1)}, MaxEntries)}
    \cup {Node(sFoo, ListV(<<Node(IntV(1), ListV(<<>>))>>))}
    \cup {Node(sFoo, sX)}
    \cup {Node(sFoo, ListV(<<Node(sBar, ListV(<<leaf>>))>>)) : leaf \in Leaves}
    \cup {Node(sFoo, ListV(<<Node(sFoo, ListV(<<>>)), Node(sBar, ListV(<<leaf>>))>>)) :
              leaf \in Leaves}

\* leaf validators without converters, with one and with two
LeafSchemas ==
    {Int_init,
     rshift(Int_init, "double"),
     rshift(rshift(Int_init, "double"), "triple"),
     rshift(rshift(Int_init, "float"), "str"),
     rshift(rshift(Int_init, "str"), "float"),
     String_init,
     rshift(String_init, "double"),
     rshift(String_init, "end"),
     String_init_regex({"a", "b", "r"}, FALSE),
     rshift(String_init_regex({"a", "b", "r"}, FALSE), "end")}

\* the other leaf validators, without converters
OtherLeafSchemas ==
    {Type_init("int"), Type_init("str"), Any_init, Null_init,
     Bool_init(FALSE), Bool_init(TRUE), Float_init,
     NumberBase_init("Float", IntV(2), NoneV, NoneV, NoneV),
     Atom_init(sBar), Atom_init(IntV(1)),
     Enum_init({sFoo, sBar, IntV(1)}), Callable_init}

\* what is passed to their check
LeafInputs ==
    {NoneV, BoolV(TRUE), BoolV(FALSE), IntV(0), IntV(1), IntV(2), FloatV(10), FloatV(35),
     s3, sX, sBar, sFoo, StrV(<<"1">>), StrV(<<"0">>),
     StrV(<<"Y", "e", "s">>), StrV(<<"N", "o">>), StrV(<<"y", "e", "s">>),
     StrV(<<"t">>), StrV(<<"F">>), StrV(<<" ", "y", " ">>), StrV(<<"n">>),
     StrV(<<"t", "r", "u", "e">>), StrV(<<"f", "a", "l", "s", "e">>),
     StrV(<<"t", "y", "e", "s">>), StrV(<<"3", ".", "5">>),
     Function("three", s3)}

\* the schemas that hold the Forward object: the Forward itself and every
\* combinator around it
ForwardSchemas ==
    {Forward_init,
     Or_init(<<Forward_init, Int_init>>),
     Or_init(<<Atom_init(sBar), Forward_init>>),
     List_init(Forward_init, 0, NoneV),
     Tuple_init(<<Int_init, Forward_init>>),
     Mapping_init(Forward_init, Int_init),
     Mapping_init(String_init, Forward_init)}

\* what provide is given: validators, and a value that is none
ProvideArgs == {Int_init, NodeDict(<<1, 2>>), NodeDict(<<2, 1>>), IntV(1)}

\* node << Tuple(node), offered to the schema that is the Forward itself
TupleOfNode == Tuple_init(<<Forward_init>>)

DictSchemas ==
    UNION {{[vdr |-> Dict_init(d, order), declared |-> d] :
               order \in Perms(Len(Dict_merge(d, Len(d))))} : d \in DictDeclarations}

DictInputs ==
    DictsUpTo(({sFoo, sTest, sBar} \X {sBar, s3}) \ {<<sBar, sBar>>}, MaxEntries)
    \cup {NoneV, ListV(<<>>)}

Schemas ==
    {[vdr |-> v, declared |-> <<>>] :
        v \in OrSchemas \cup ListSchemas \cup TupleSchemas \cup MappingSchemas
                  \cup ForwardSchemas \cup LeafSchemas \cup OtherLeafSchemas}
    \cup DictSchemas

OtherLeafClasses == {"Type", "Any", "Null", "Bool", "Float", "Atom", "Enum", "Callable"}

\* what can be passed to the check of a validator of class cls
Inputs(cls) ==
    CASE cls = "Or" -> {IntV(1), s3, sX, sBar, NoneV, FloatV(35), ListV(<<sX>>),
                        ListV(<<IntV(1)>>), DictV(<<<<sFoo, IntV(1)>>>>)}
      [] cls = "List" -> ListInputs
      [] cls = "Tuple" -> TupleInputs
      [] cls = "Mapping" -> MappingInputs
      [] cls = "Dict" -> DictInputs
      [] cls = "Forward" -> NodeInputs \cup {sX, TupleV(<<TupleV(<<>>)>>)}
      [] cls = "Int" -> {IntV(1), IntV(4), s3, sX, NoneV, FloatV(30), FloatV(35)}
      [] cls = "String" -> {sBar, sFoo, StrV(<<"b", "a", "x">>), IntV(1)}
      [] cls \in OtherLeafClasses -> LeafInputs

----------------------------------------------------------------------------
(* The state machine: a schema is built, then checks are made on it *)

Init ==
    /\ PY3 \in BOOLEAN
    /\ \E s \in Schemas : vdr = s.vdr /\ declared = s.declared
    /\ op = "init"
    /\ value = NoneV
    /\ result = NoneV
    /\ locals = NoneV
    /\ calls = [checks |-> 0, factory |-> 0]
    /\ forward = NoneV

\* vdr.check(v): the handler ran as `run` tells, then ValidatorBase.check
\* applies the converters to what it returned
Call(name, run, v) ==
    /\ calls.checks < MaxCalls
    /\ op' = name
    /\ value' = v
    /\ result' = convert(vdr, run.result)
    /\ locals' = run
    /\ calls' = [calls EXCEPT !.checks = @ + 1,
                              !.factory = @ + (IF name = "Dict.check" THEN run.called ELSE 0)]
    /\ UNCHANGED <<vdr, declared, PY3, forward>>

OrCheck ==
    /\ vdr.cls = "Or"
    /\ \E v \in Inputs("Or") : Call("Or.check", Or_run(vdr, v), v)

ListCheck ==
    /\ vdr.cls = "List"
    /\ \E v \in Inputs("List") : Call("List.check", List_run(vdr, v), v)

TupleCheck ==
    /\ vdr.cls = "Tuple"
    /\ \E v \in Inputs("Tuple") : Call("Tuple.check", Tuple_run(vdr, v), v)

MappingCheck ==
    /\ vdr.cls = "Mapping"
    /\ \E v \in Inputs("Mapping") : Call("Mapping.check", Mapping_run(vdr, v), v)

DictCheck ==
    /\ vdr.cls = "Dict"
    /\ \E v \in Inputs("Dict") : Call("Dict.check", Dict_run(vdr, v), v)

\* the names make_optional is called with
OptionalNames == {<<>>, <<sFoo, sTest>>}

\* vdr.make_optional(*args), for the calls that mark a key not yet optional
MakeOptional ==
    /\ vdr.cls = "Dict"
    /\ \E args \in OptionalNames :
        /\ Dict_make_optional(vdr, args) # vdr
        /\ op' = "Dict.make_optional"
        /\ value' = TupleV(args)
        /\ vdr' = Dict_make_optional(vdr, args)
        /\ result' = Ok(Self)
    /\ locals' = NoneV
    /\ UNCHANGED <<declared, calls, PY3, forward>>

ForwardCheck ==
    /\ vdr.cls = "Forward"
    /\ \E v \in Inputs("Forward") : Call("Forward.check", Forward_run(vdr, v), v)

IntCheck ==
    /\ vdr.cls = "Int"
    /\ \E v \in Inputs("Int") : Call("Int.check", [result |-> NumberBase_check(vdr, v)], v)

StringCheck ==
    /\ vdr.cls = "String"
    /\ \E v \in Inputs("String") : Call("String.check", [result |-> String_check(vdr, v)], v)

\* vdr.check(v) on one of the other leaf validators
LeafCheck ==
    /\ vdr.cls \in OtherLeafClasses
    /\ \E v \in Inputs(vdr.cls) : Call(vdr.cls \o ".check", [result |-> handler(vdr, v)], v)

\* forward.provide(validator), on the Forward object the schema holds
Provide ==
    /\ Mentions(vdr)
    /\ \E validator \in ProvideArgs \cup (IF vdr.cls = "Forward" THEN {TupleOfNode} ELSE {}) :
        /\ op' = "Forward.provide"
        /\ value' = validator
        /\ result' = Forward_provide(validator).result
        /\ forward' = Forward_provide(validator).validator
    /\ locals' = NoneV
    /\ UNCHANGED <<vdr, declared, calls, PY3>>

\* the classes of the schemas extract_error is called on
ExtractedClasses == {"Forward", "Tuple"}

\* what extract_error is given: values that pass, values that fail at
\* the top and values whose failure lies one and two containers deep
ExtractedInputs(cls) ==
    IF cls = "Forward"
    THEN Leaves \cup {sX, Node(sFoo, ListV(<<Node(IntV(1), ListV(<<>>))>>)),
                      Node(sFoo, ListV(<<Node(sBar, ListV(<<IntV(1)>>))>>))}
    ELSE {IntV(1), ListV(<<IntV(1), sX>>), ListV(<<sX, IntV(1)>>), ListV(<<sX, sX>>)}

\* extract_error(vdr, v): result is in locals as catch_error returned it
ExtractError ==
    /\ vdr.cls \in ExtractedClasses
    /\ calls.checks < MaxCalls
    /\ \E v \in ExtractedInputs(vdr.cls) :
        /\ op' = "extract_error"
        /\ value' = v
        /\ result' = extract_error(vdr, v)
        /\ locals' = [result |-> catch_error(vdr, v)]
    /\ calls' = [calls EXCEPT !.checks = @ + 1]
    /\ UNCHANGED <<vdr, declared, PY3, forward>>

\* what a schema is composed with by |
OrOperands == {Int_init, Or_init(<<Null_init, String_init>>)}

\* vdr | other and other | vdr, before the first check, where one of the
\* two is an Or and vdr is an Or or a leaf; locals tells on which side vdr
\* stands
OrCompose ==
    /\ calls.checks = 0
    /\ vdr.cls \in {"Or", "Int", "String"} \cup OtherLeafClasses
    /\ \E other \in OrOperands, left \in BOOLEAN :
        /\ vdr.cls = "Or" \/ other.cls = "Or"
        /\ op' = "|"
        /\ value' = other
        /\ result' = Ok(IF left THEN or(vdr, other) ELSE or(other, vdr))
        /\ locals' = [left |-> left]
    /\ UNCHANGED <<vdr, declared, calls, PY3, forward>>

\* the functions attached with >>
Converters == {"double", "triple"}

\* vdr >> other, before the first check, on the schemas that are no Dict:
\* result holds the validator returned
Rshift ==
    /\ calls.checks = 0
    /\ vdr.cls # "Dict"
    /\ deepcopy_is_self(vdr) => Len(vdr.converters) < MaxConverters
    /\ \E other \in Converters :
        /\ op' = ">>"
        /\ value' = Text(other)
        /\ result' = Ok(ValidatorBase_rshift(vdr, other).obj)
        /\ vdr' = ValidatorBase_rshift(vdr, other).self
    /\ locals' = NoneV
    /\ UNCHANGED <<declared, calls, PY3, forward>>

Next ==
    \/ OrCheck \/ ListCheck \/ TupleCheck \/ MappingCheck \/ DictCheck \/ ForwardCheck
    \/ IntCheck \/ StringCheck \/ LeafCheck
    \/ MakeOptional \/ Provide \/ Rshift \/ ExtractError \/ OrCompose

Spec == Init /\ [][Next]_vars

----------------------------------------------------------------------------
(* Concurrent checks: several callers run Dict._check on one shared Dict,  *)
(* a step at a time.  value, result and the program counters are kept per  *)
(* caller; locals.frames holds the locals of the calls.                    *)

NumCallers == 2     \* callers that check concurrently
Callers == 1..NumCallers

\* locals kept in one place for all the calls, as attributes of the
\* validator would be
frame_shared(caller) == 1

\* the frame that holds data, collect and errors of a call of Dict._check:
\* they are locals, so every call has its own
frame(caller) == caller

\* the schemas shared, each complete: its Forward is bound
ConcurrentSchemas ==
    {[vdr |-> DictOneKey, forward |-> NoneV],
     [vdr |-> Dict_init(<<<<sFoo, Atom_init(sBar)>>,
                          <<Key_init(sTest, IntV(1), FALSE, sBar, Any_init), Int_init>>>>,
                        <<1, 2>>),
      forward |-> NoneV],
     [vdr |-> Dict_init(<<<<sFoo, Atom_init(sBar)>>, <<String_init, DictTwoKeys>>>>, <<1, 2>>),
      forward |-> NoneV],
     [vdr |-> NodeDict(<<1, 2>>), forward |-> NodeDict(<<1, 2>>)]}

ConcurrentInputs ==
    {DictV(<<<<sFoo, sBar>>>>), DictV(<<<<sFoo, s3>>, <<sTest, sX>>>>),
     DictV(<<<<sFoo, sBar>>, <<sX, IntV(1)>>>>),
     Node(sFoo, ListV(<<Node(sBar, ListV(<<>>))>>))}

ConcurrentInit ==
    /\ PY3 \in BOOLEAN
    /\ \E s \in ConcurrentSchemas : vdr = s.vdr /\ forward = s.forward
    /\ declared = <<>>
    /\ op = "init"
    /\ value \in [Callers -> ConcurrentInputs]
    /\ result = [c \in Callers |-> NoneV]
    /\ locals = [pc |-> [c \in Callers |-> "call"],
                 i |-> [c \in Callers |-> 0],
                 frames |-> [c \in Callers |-> NoneV]]
    /\ calls = [started |-> <<>>, finished |-> <<>>]

\* where a call stands when it comes to hard key i with the locals st
AtHardKey(st, i) ==
    IF st.raised # NoneV THEN [pc |-> "return", i |-> 0]
    ELSE IF i > Len(vdr.hard_keys) THEN [pc |-> "rest", i |-> 1]
    ELSE [pc |-> "hard", i |-> i]

\* the call of caller c goes on with the locals st, from position at
Continue(c, st, at) ==
    /\ locals' = [locals EXCEPT !.pc[c] = at.pc, !.i[c] = at.i, !.frames[frame(c)] = st]
    /\ UNCHANGED <<vdr, declared, value, result, PY3, forward>>

\* the call of caller c ends with what _check returned or raised
Finish(c, r) ==
    /\ result' = [result EXCEPT ![c] = convert(vdr, r)]
    /\ locals' = [locals EXCEPT !.pc[c] = "done"]
    /\ calls' = [calls EXCEPT !.finished = Append(@, c)]
    /\ UNCHANGED <<vdr, declared, value, PY3, forward>>

\* caller c calls vdr.check(value[c]): the test of the type, and the locals
\* of Dict._check before its loops
Enter(c) ==
    /\ locals.pc[c] = "call"
    /\ op' = "Dict.check"
    /\ IF value[c].t # "dict"
       THEN Finish(c, Fail(Msg("value is not dict")))
       ELSE /\ Continue(c, Dict_hard_loop(vdr.hard_keys, WorkingCopy(value[c]).pairs, 0)[1],
                        AtHardKey([raised |-> NoneV], 1))
            /\ calls' = [calls EXCEPT !.started = Append(@, c)]

\* one turn of the loop over the hard keys
HardTurn(c, st) ==
    /\ Continue(c, st, AtHardKey(st, locals.i[c] + 1))
    /\ UNCHANGED calls

PopKey(c) ==
    /\ locals.pc[c] = "hard"
    /\ op' = "Key.pop"
    /\ HardTurn(c, Dict_hard_step(locals.frames[frame(c)],
                                  Key_pop(vdr.hard_keys[locals.i[c]],
                                          locals.frames[frame(c)].data)))

\* one turn of the loop over the entries the hard keys left
RestTurn(c, st) ==
    /\ Continue(c, st, IF st.raised # NoneV THEN [pc |-> "return", i |-> 0]
                       ELSE [pc |-> "rest", i |-> locals.i[c] + 1])
    /\ UNCHANGED calls

RestEntry(c) ==
    /\ locals.pc[c] = "rest"
    /\ locals.i[c] <= Len(locals.frames[frame(c)].data)
    /\ op' = "Dict.rest"
    /\ RestTurn(c, Dict_rest_next(vdr.soft_keys, locals.frames[frame(c)],
                                  locals.frames[frame(c)].data[locals.i[c]]))

\* the end of Dict._check, and the converters of ValidatorBase.check
Return(c) ==
    /\ \/ locals.pc[c] = "return"
       \/ locals.pc[c] = "rest" /\ locals.i[c] > Len(locals.frames[frame(c)].data)
    /\ op' = "Dict.return"
    /\ Finish(c, Dict_end(<<>>, locals.frames[frame(c)], value[c], WorkingCopy(value[c])).result)

ConcurrentNext ==
    \E c \in Callers : Enter(c) \/ PopKey(c) \/ RestEntry(c) \/ Return(c)

SpecConcurrent == ConcurrentInit /\ [][ConcurrentNext]_vars

----------------------------------------------------------------------------
(* Properties *)

\* the least element of a non-empty set of integers
Min(S) == CHOOSE i \in S : \A j \in S : i <= j

\* what each candidate of the Or vdr gives on the input of the last call
CandidateResults == [i \in 1..Len(vdr.validators) |-> check(vdr.validators[i], value)]

\* C1: Or.check(x) succeeds iff some candidate's check(x) succeeds; the
\* candidates are tried in declared order, the result is the result of the
\* first candidate that succeeds, and no candidate after it is tried.
C1_OrFirstSuccess ==
    op = "Or.check" =>
        LET rs == CandidateResults
            oks == {i \in 1..Len(rs) : IsOk(rs[i])}
        IN /\ IsOk(result) <=> oks # {}
           /\ oks # {} => result = rs[Min(oks)] /\ locals.tried = Min(oks)

\* the candidates of the Or vdr whose repr is r, in declared order
RECURSIVE WithRepr(_, _)
WithRepr(r, n) ==
    IF n = 0 THEN <<>>
    ELSE WithRepr(r, n - 1) \o (IF repr(vdr.validators[n]) = r THEN <<n>> ELSE <<>>)

\* C2: when every candidate of an Or fails, the compound error raised is
\* keyed by the candidates' reprs; a repr that one candidate has maps to
\* that candidate's error, a repr that several candidates share maps to the
\* sub-mapping 0, 1, ... of their errors in declared order, so that every
\* candidate's failure is reported.
C2_OrReportsEveryFailure ==
    (op = "Or.check" /\ \A i \in 1..Len(vdr.validators) : IsFail(CandidateResults[i])) =>
        LET rs == CandidateResults
            n == Len(rs)
            reprs == {repr(vdr.validators[i]) : i \in 1..n}
        IN /\ IsFail(result)
           /\ result.err.e = "map"
           /\ Keys(result.err.pairs) = {Text(r) : r \in reprs}
           /\ Len(result.err.pairs) = Cardinality(reprs)
           /\ \A r \in reprs :
                LET same == WithRepr(r, n)
                    reported == Get(result.err.pairs, Text(r))
                IN IF Len(same) = 1 THEN reported = rs[same[1]].err
                   ELSE /\ reported.e = "map"
                        /\ reported.pairs = [j \in 1..Len(same) |-> <<IntV(j - 1), rs[same[j]].err>>]

\* the schema holds no Forward that is still unbound, so that no check of
\* it ends in the programming error of an unbound Forward
Bound == ~Mentions(vdr) \/ forward # NoneV

\* what the element validator of the List vdr gives on each element of the
\* input of the last call
ElementResults == [i \in 1..Len(value.items) |-> check(vdr.validator, value.items[i])]

\* the input of the last call is a list of a length the List vdr allows
ListWithinBounds ==
    /\ op = "List.check"
    /\ Bound
    /\ value.t = "list"
    /\ Len(value.items) >= vdr.min_length
    /\ vdr.max_length # NoneV => Len(value.items) <= vdr.max_length.i

\* r is the compound error whose locators are exactly the positions of
\* `failed` (counted from 0), each with the error rs gives for the position
ReportsExactly(r, rs, failed) ==
    /\ IsFail(r)
    /\ "val" \notin DOMAIN r
    /\ r.err.e = "map"
    /\ Keys(r.err.pairs) = {IntV(i - 1) : i \in failed}
    /\ Len(r.err.pairs) = Cardinality(failed)
    /\ \A i \in failed : Get(r.err.pairs, IntV(i - 1)) = rs[i].err

\* C3: for a list whose length is within bounds List.check validates every
\* element: it succeeds iff every element passes the element validator, and
\* then returns the converted elements in input order; otherwise it raises
\* the compound error whose locators are exactly the indices of the failing
\* elements, and returns nothing.
C3_ListValidatesEveryElement ==
    ListWithinBounds =>
        LET rs == ElementResults
            failed == {i \in 1..Len(rs) : ~IsOk(rs[i])}
        IN /\ IsOk(result) <=> failed = {}
           /\ failed = {} =>
                /\ locals.result = Ok(ListV([i \in 1..Len(rs) |-> rs[i].val]))
                /\ Len(locals.result.val.items) = Len(value.items)
                /\ vdr.converters = <<>> => result = locals.result
           /\ failed # {} => ReportsExactly(result, rs, failed)

\* a list of three elements of which the first and the last fail and the
\* second passes
C3_Witness ==
    /\ ListWithinBounds
    /\ Len(value.items) = 3
    /\ IsFail(ElementResults[1]) /\ IsOk(ElementResults[2]) /\ IsFail(ElementResults[3])
    /\ Len(result.err.pairs) = 2

\* the length of the input of the last call is outside the bounds of the List vdr
ListOutOfBounds ==
    \/ Len(value.items) < vdr.min_length
    \/ vdr.max_length # NoneV /\ Len(value.items) > vdr.max_length.i

\* C4: the length bounds of a List are inclusive and come before the
\* elements: a list is rejected with a message-only length error iff its
\* length is less than min_length or max_length is set and its length is
\* greater; then no element has been validated and no per-index error is
\* reported, even if elements are invalid.
C4_ListBoundsInclusive ==
    (op = "List.check" /\ value.t = "list") =>
        /\ ListOutOfBounds <=> (IsFail(result) /\ result.err.e = "msg")
        /\ ListOutOfBounds =>
             /\ result.err.m =
                  IF Len(value.items) < vdr.min_length
                  THEN "list length is less than " \o ToString(vdr.min_length)
                  ELSE "list length is greater than " \o ToString(vdr.max_length.i)
             /\ locals.errors = <<>>
             /\ locals.collected = <<>>

\* a list longer than max_length that holds an invalid element
C4_Witness ==
    /\ op = "List.check"
    /\ value.t = "list"
    /\ vdr.max_length # NoneV /\ Len(value.items) = vdr.max_length.i + 1
    /\ \E i \in 1..Len(value.items) : IsFail(ElementResults[i])
    /\ result.err.e = "msg"

\* what each position validator of the Tuple vdr gives on its item of the
\* input of the last call
PositionResults == [i \in 1..Len(vdr.validators) |-> check(vdr.validators[i], value.items[i])]

\* C5: Tuple.check rejects an input whose length is not the number of
\* position validators with a message-only arity error, before any position
\* is validated; an input of the right length has every position validated
\* by its own validator: the error is keyed by exactly the failing
\* positions, and on success the converted items are returned as a tuple in
\* position order.
C5_TupleArityThenEveryPosition ==
    (op = "Tuple.check" /\ Bound /\ value.t \in {"list", "tuple"}) =>
        IF Len(value.items) # Len(vdr.validators)
        THEN /\ result = Fail(Msg("value must contain exact "
                                   \o ToString(Len(vdr.validators)) \o " items"))
             /\ locals.errors = <<>>
             /\ locals.collected = <<>>
        ELSE LET rs == PositionResults
                 failed == {i \in 1..Len(rs) : ~IsOk(rs[i])}
             IN /\ IsOk(result) <=> failed = {}
                /\ failed = {} => result = Ok(TupleV([i \in 1..Len(rs) |-> rs[i].val]))
                /\ failed # {} => ReportsExactly(result, rs, failed)

\* an input of the right length whose first and last positions fail while
\* the one between passes
C5_Witness ==
    /\ op = "Tuple.check"
    /\ value.t = "list"
    /\ Len(value.items) = 3 /\ Len(vdr.validators) = 3
    /\ IsFail(PositionResults[1]) /\ IsOk(PositionResults[2]) /\ IsFail(PositionResults[3])
    /\ Len(result.err.pairs) = 2

\* what the key validator and the value validator of the Mapping vdr give
\* on the i-th entry of the input of the last call
KeyResult(i) == check(vdr.validator_key, value.pairs[i][1])
ValueResult(i) == check(vdr.validator_value, value.pairs[i][2])

\* the locators of the error of the i-th entry
EntryLocators(i) ==
    (IF IsOk(KeyResult(i)) THEN {} ELSE {Text("key")})
    \cup (IF IsOk(ValueResult(i)) THEN {} ELSE {Text("value")})

\* C6: Mapping.check validates the key and the value of every entry, the
\* value also when the key fails: it succeeds iff every key and every value
\* pass, and then returns a record keyed by the converted keys; otherwise
\* the error has one entry per failing input entry, keyed by the original
\* key, whose locators are exactly those of 'key' and 'value' that failed.
C6_MappingValidatesKeyAndValue ==
    (op = "Mapping.check" /\ Bound /\ value.t = "dict") =>
        LET n == Len(value.pairs)
            failed == {i \in 1..n : EntryLocators(i) # {}}
        IN /\ IsOk(result) <=> failed = {}
           /\ failed = {} =>
                /\ result.val.t = "dict"
                /\ \A i \in 1..n : HasKey(result.val.pairs, KeyResult(i).val)
                /\ \A j \in 1..Len(result.val.pairs) :
                     /\ \E i \in 1..n : /\ result.val.pairs[j][1] = KeyResult(i).val
                                        /\ result.val.pairs[j][2] = ValueResult(i).val
                     /\ \A k \in 1..Len(result.val.pairs) :
                          PyEq(result.val.pairs[j][1], result.val.pairs[k][1]) => j = k
           /\ failed # {} =>
                /\ IsFail(result)
                /\ result.err.e = "map"
                /\ Keys(result.err.pairs) = {value.pairs[i][1] : i \in failed}
                /\ Len(result.err.pairs) = Cardinality(failed)
                /\ \A i \in failed :
                     LET entry == Get(result.err.pairs, value.pairs[i][1])
                     IN /\ entry.e = "map"
                        /\ Keys(entry.pairs) = EntryLocators(i)
                        /\ Len(entry.pairs) = Cardinality(EntryLocators(i))
                        /\ Text("key") \in EntryLocators(i) =>
                             Get(entry.pairs, Text("key")) = KeyResult(i).err
                        /\ Text("value") \in EntryLocators(i) =>
                             Get(entry.pairs, Text("value")) = ValueResult(i).err

\* two entries, one whose key and value both fail and one that passes
C6_Witness ==
    /\ op = "Mapping.check"
    /\ value.t = "dict"
    /\ Len(value.pairs) = 2
    /\ \E i, j \in 1..2 : /\ EntryLocators(i) = {Text("key"), Text("value")}
                          /\ EntryLocators(j) = {}
    /\ Len(result.err.pairs) = 1

\* the last call was a Dict.check on a dict
DictChecked == op = "Dict.check" /\ Bound /\ value.t = "dict"

\* the hard keys in the order of their declaration
DeclaredHardKeys == Dict_init(declared, [i \in 1..Len(declared) |-> i]).hard_keys

\* the name a key gives its output entry: the rename if one is set
OutputName(key) == IF key.to_name # NoneV THEN key.to_name ELSE key.name

\* the entries of pairs whose key is not k, in order
RECURSIVE Without(_, _)
Without(pairs, k) ==
    IF pairs = <<>> THEN <<>>
    ELSE (IF pairs[1][1] = k THEN <<>> ELSE <<pairs[1]>>) \o Without(Tail(pairs), k)

\* the outcome r of a validation is recorded under `name` between the
\* locals before and after: the converted value in the output, or the error
\* among the errors and nothing in the output
Recorded(before, after, name, r) ==
    /\ IsOk(r) => /\ HasKey(after.collect, name)
                  /\ Get(after.collect, name) = r.val
                  /\ Without(after.collect, name) = Without(before.collect, name)
                  /\ after.errors = before.errors
    /\ IsFail(r) => /\ HasKey(after.errors, name)
                    /\ Get(after.errors, name) = r.err
                    /\ Without(after.errors, name) = Without(before.errors, name)
                    /\ after.collect = before.collect

\* the turn of a hard key whose name is in the working copy `before.data`
PresentKeyTurn(key, before, after) ==
    HasKey(before.data, key.name) =>
        /\ ~HasKey(after.data, key.name)
        /\ after.data = Without(before.data, key.name)
        /\ Recorded(before, after, OutputName(key),
                    check(key.validator, Get(before.data, key.name)))

\* the loop over the hard keys took them in the order keys: it started from
\* a copy of the input and nothing else, and the i-th turn was the turn of
\* keys[i]; a key it took is not a leftover entry afterwards
HardKeysTakenInOrder(keys) ==
    /\ Len(locals.trace) = Len(keys) + 1
    /\ locals.trace[1].data = value.pairs
    /\ locals.trace[1].collect = <<>>
    /\ locals.trace[1].errors = <<>>
    /\ \A i \in 1..Len(keys) :
         /\ PresentKeyTurn(keys[i], locals.trace[i], locals.trace[i + 1])
         /\ HasKey(value.pairs, keys[i].name) =>
              /\ ~HasKey(locals.trace[Len(keys) + 1].data, keys[i].name)
              /\ ~(/\ IsFail(result)
                   /\ HasKey(result.err.pairs, keys[i].name)
                   /\ Get(result.err.pairs, keys[i].name)
                        = Msg(PyRepr(keys[i].name) \o " is not allowed key"))

\* the keys of both sets are the same keys: name, rename, default and
\* validator agree (make_optional may have set the optional flag since)
SameKeys(keys, others) ==
    {[k EXCEPT !.optional = FALSE] : k \in keys} = {[k EXCEPT !.optional = FALSE] : k \in others}

\* C7 as the specification states it: each hard key present in the input is
\* removed from the working copy and validated, its converted value stored
\* under its output name or its error recorded, and the hard keys are
\* processed in declaration order.
C7_HardKeysInDeclarationOrder ==
    DictChecked => HardKeysTakenInOrder(DeclaredHardKeys)

\* C7: each hard key present in the input is removed from the working copy
\* (so it is never a leftover entry) and validated by the key's validator;
\* on success the converted value is stored under the key's output name, on
\* failure a per-key error is recorded and no output entry is produced.  The
\* hard keys are processed in the order of the Dict's list of hard keys,
\* which holds the declared hard keys in the order the merged constructor
\* arguments are iterated.
C7_HardKeysInListOrder ==
    /\ vdr.cls = "Dict" =>
         /\ SameKeys(Range(vdr.hard_keys), Range(DeclaredHardKeys))
         /\ Len(vdr.hard_keys) = Len(DeclaredHardKeys)
    /\ DictChecked => HardKeysTakenInOrder(vdr.hard_keys)

\* two hard keys present in the input, the first valid and renamed, the
\* second invalid
C7_Witness ==
    /\ DictChecked
    /\ Len(vdr.hard_keys) = 2
    /\ vdr.hard_keys # DeclaredHardKeys
    /\ \A i \in 1..2 : HasKey(value.pairs, vdr.hard_keys[i].name)
    /\ vdr.hard_keys[1].to_name # NoneV
    /\ locals.trace[2].collect # <<>>
    /\ locals.trace[3].errors # <<>>

\* the hard keys of the Dict vdr that are absent from the input (i is the
\* place of the key in the list, and its turn in the loop)
AbsentKeys ==
    {i \in 1..Len(vdr.hard_keys) : ~HasKey(locals.trace[i].data, vdr.hard_keys[i].name)}

\* C8: a hard key that is absent from the input, not optional and without
\* default makes Dict.check fail, with an 'is required' error recorded
\* under the key's original name, not under its rename.
C8_RequiredUnderOriginalName ==
    DictChecked =>
        \A i \in AbsentKeys :
            (~vdr.hard_keys[i].optional /\ vdr.hard_keys[i].default = Undefined) =>
                /\ Recorded(locals.trace[i], locals.trace[i + 1], vdr.hard_keys[i].name,
                            Fail(Msg("is required")))
                /\ locals.trace[i + 1].data = locals.trace[i].data
                /\ IsFail(result)
                /\ result.err.e = "map"
                /\ HasKey(result.err.pairs, vdr.hard_keys[i].name)

\* a renamed key without default is absent: the only error of the check is
\* its 'is required', under the original name
C8_Witness ==
    /\ DictChecked
    /\ \E i \in AbsentKeys :
         /\ ~vdr.hard_keys[i].optional
         /\ vdr.hard_keys[i].default = Undefined
         /\ vdr.hard_keys[i].to_name # NoneV
         /\ result = Fail(ErrMap(<<<<vdr.hard_keys[i].name, Msg("is required")>>>>))

\* the value of a default: what it returns if it is callable
DefaultValue(key) ==
    IF key.default.t = "function" THEN key.default.returns ELSE key.default

\* the hard keys of the Dict vdr whose default is evaluated by the last call
Defaulted ==
    {i \in AbsentKeys : ~vdr.hard_keys[i].optional /\ vdr.hard_keys[i].default # Undefined}

\* C9: for a hard key that is absent, not optional and has a default,
\* Dict.check evaluates the default (calls it if it is callable), validates
\* it with the key's validator and stores the result, or records the error,
\* under the key's output name.  A default factory is called once in such a
\* turn, in no other turn, and never when the schema is constructed.
C9_DefaultValidatedAndStored ==
    /\ op = "init" => calls.factory = 0
    /\ DictChecked =>
         /\ \A i \in Defaulted :
              /\ Recorded(locals.trace[i], locals.trace[i + 1], OutputName(vdr.hard_keys[i]),
                          check(vdr.hard_keys[i].validator, DefaultValue(vdr.hard_keys[i])))
              /\ locals.trace[i + 1].data = locals.trace[i].data
         /\ \A i \in 1..Len(vdr.hard_keys) :
              locals.trace[i + 1].called - locals.trace[i].called =
                  IF i \in Defaulted /\ vdr.hard_keys[i].default.t = "function" THEN 1 ELSE 0
         /\ locals.trace[1].called = 0
         /\ locals.called = locals.trace[Len(vdr.hard_keys) + 1].called
         /\ calls.factory <= calls.checks * Len(vdr.hard_keys)

\* a renamed key is absent and its default factory returns a value the
\* validator refuses: the error is under the output name
C9_Witness ==
    /\ DictChecked
    /\ \E i \in Defaulted :
         /\ vdr.hard_keys[i].default.t = "function"
         /\ vdr.hard_keys[i].to_name # NoneV
         /\ IsFail(check(vdr.hard_keys[i].validator, DefaultValue(vdr.hard_keys[i])))
         /\ HasKey(result.err.pairs, vdr.hard_keys[i].to_name)
         /\ calls.factory = 1

\* a and b are dicts with the same entries
DictEq(a, b) ==
    /\ a.t = "dict" /\ b.t = "dict"
    /\ Len(a.pairs) = Len(b.pairs)
    /\ \A i \in 1..Len(a.pairs) :
         HasKey(b.pairs, a.pairs[i][1]) /\ Get(b.pairs, a.pairs[i][1]) = a.pairs[i][2]

\* Dict({Key("foo"): Atom("bar"), Key("test", optional=True): Int})
IsOptionalExample ==
    declared = <<<<Key_init(sFoo, Undefined, FALSE, NoneV, Any_init), Atom_init(sBar)>>,
                 <<Key_init(sTest, Undefined, TRUE, NoneV, Any_init), Int_init>>>>

\* C10: an optional hard key that is absent from the input is skipped: it
\* contributes no output entry and no error, and its default is neither
\* evaluated nor inserted; present, it is validated and converted like a
\* required key.  With foo=Atom('bar') and optional test=Int, {'foo':'bar'}
\* yields {'foo':'bar'} and {'foo':'bar','test':'3'} yields
\* {'foo':'bar','test':3}.
C10_OptionalAbsentSkipped ==
    DictChecked =>
        /\ \A i \in 1..Len(vdr.hard_keys) :
             vdr.hard_keys[i].optional =>
                /\ i \in AbsentKeys => locals.trace[i + 1] = locals.trace[i]
                /\ PresentKeyTurn(vdr.hard_keys[i], locals.trace[i], locals.trace[i + 1])
        /\ (IsOptionalExample /\ DictEq(value, DictV(<<<<sFoo, sBar>>>>))) =>
                IsOk(result) /\ DictEq(result.val, DictV(<<<<sFoo, sBar>>>>))
        /\ (IsOptionalExample /\ DictEq(value, DictV(<<<<sFoo, sBar>>, <<sTest, s3>>>>))) =>
                IsOk(result)
                /\ DictEq(result.val, DictV(<<<<sFoo, sBar>>, <<sTest, IntV(3)>>>>))

\* an optional key that has a default is absent, and the check succeeds
\* without an entry for it
C10_Witness ==
    /\ DictChecked
    /\ \E i \in AbsentKeys :
         /\ vdr.hard_keys[i].optional
         /\ vdr.hard_keys[i].default # Undefined
         /\ IsOk(result)
         /\ ~HasKey(result.val.pairs, OutputName(vdr.hard_keys[i]))

\* the entries of the input of the last call that no hard key of the Dict
\* vdr consumes, in order
RECURSIVE LeftoverOf(_)
LeftoverOf(pairs) ==
    IF pairs = <<>> THEN <<>>
    ELSE (IF \E i \in 1..Len(vdr.hard_keys) : vdr.hard_keys[i].name = pairs[1][1]
          THEN <<>> ELSE <<pairs[1]>>)
         \o LeftoverOf(Tail(pairs))

NotAllowed(k) == Msg(PyRepr(k) \o " is not allowed key")

\* C11: when a Dict has no soft-key rules, every input entry that no hard
\* key consumes is an error: the check fails whenever there is such an
\* entry, and the compound error holds the 'not allowed key' error of each
\* leftover entry under that entry's key, and no other 'not allowed key'
\* error.
C11_LeftoverNotAllowed ==
    (DictChecked /\ vdr.soft_keys = <<>>) =>
        LET left == LeftoverOf(value.pairs)
        IN /\ left # <<>> => IsFail(result) /\ result.err.e = "map"
           /\ \A i \in 1..Len(left) :
                /\ HasKey(result.err.pairs, left[i][1])
                /\ Get(result.err.pairs, left[i][1]) = NotAllowed(left[i][1])
           /\ IsFail(result) =>
                \A j \in 1..Len(result.err.pairs) :
                    (\E k \in Keys(value.pairs) \cup {result.err.pairs[j][1]} :
                        result.err.pairs[j][2] = NotAllowed(k))
                    => \E i \in 1..Len(left) : left[i][1] = result.err.pairs[j][1]

\* two entries are left over, beside a hard key that is missing
C11_Witness ==
    /\ DictChecked
    /\ vdr.soft_keys = <<>>
    /\ Len(LeftoverOf(value.pairs)) = 2
    /\ Len(result.err.pairs) = 3

\* the soft-key rules in the order of their declaration
DeclaredSoftKeys == Dict_init(declared, [i \in 1..Len(declared) |-> i]).soft_keys

\* what the soft-key rule `rule` gives on the single-entry record of pair
RuleResult(rule, pair) == check(rule, DictV(<<pair>>))

\* the rules among the first n of `rules` whose repr is r, in order
RECURSIVE RulesWithRepr(_, _, _)
RulesWithRepr(rules, r, n) ==
    IF n = 0 THEN <<>>
    ELSE RulesWithRepr(rules, r, n - 1) \o (IF repr(rules[n]) = r THEN <<n>> ELSE <<>>)

\* err is the per-entry error of pair when every rule of `rules` fails: it
\* is keyed by the rules' reprs, each with the rule's error for the entry,
\* and rules that share a repr have their errors numbered from 0
HoldsEveryRuleError(err, rules, pair) ==
    LET reprs == {repr(rules[j]) : j \in 1..Len(rules)}
        RuleError(j) == Get(RuleResult(rules[j], pair).err.pairs, pair[1])
    IN /\ err.e = "map"
       /\ Keys(err.pairs) = {Text(r) : r \in reprs}
       /\ Len(err.pairs) = Cardinality(reprs)
       /\ \A r \in reprs :
            LET same == RulesWithRepr(rules, r, Len(rules))
                held == Get(err.pairs, Text(r))
            IN IF Len(same) = 1 THEN held = RuleError(same[1])
               ELSE /\ held.e = "map"
                    /\ held.pairs = [j \in 1..Len(same) |-> <<IntV(j - 1), RuleError(same[j])>>]

\* every leftover entry of the input of the last call is settled by the
\* soft-key rules taken in the order `rules`: the first rule that passes
\* contributes its converted entry, and if none passes the error of the
\* entry holds every rule's error
SoftRulesInOrder(rules) ==
    \A i \in 1..Len(LeftoverOf(value.pairs)) :
        LET pair == LeftoverOf(value.pairs)[i]
            passing == {j \in 1..Len(rules) : IsOk(RuleResult(rules[j], pair))}
        IN IF passing # {}
           THEN LET won == RuleResult(rules[Min(passing)], pair).val.pairs[1]
                IN /\ ~IsRaise(result)
                   /\ IsOk(result) => /\ HasKey(result.val.pairs, won[1])
                                      /\ Get(result.val.pairs, won[1]) = won[2]
                   /\ IsFail(result) => ~HasKey(result.err.pairs, pair[1])
           ELSE /\ IsFail(result)
                /\ HasKey(result.err.pairs, pair[1])
                /\ HoldsEveryRuleError(Get(result.err.pairs, pair[1]), rules, pair)

\* C12: when a Dict has soft-key rules, each entry left by the hard keys is
\* tried against the rules in declaration order as a single-entry record:
\* the first rule whose key and value validate contributes its converted
\* entry to the output and the errors of the rules before it are dropped;
\* if every rule fails, the error of the entry, under its original key,
\* holds each rule's error under the rule's repr, none lost.
C12_SoftRulesInDeclarationOrder ==
    (DictChecked /\ vdr.soft_keys # <<>>) => SoftRulesInOrder(DeclaredSoftKeys)

\* what the hard key `key` contributes on the input of the last call: the
\* outcome r of its validation and the name it is recorded under
HardOutcome(key) ==
    IF HasKey(value.pairs, key.name)
    THEN [name |-> OutputName(key), r |-> check(key.validator, Get(value.pairs, key.name))]
    ELSE IF key.optional THEN [name |-> key.name, r |-> [st |-> "skipped"]]
    ELSE IF key.default # Undefined
    THEN [name |-> OutputName(key), r |-> check(key.validator, DefaultValue(key))]
    ELSE [name |-> key.name, r |-> Fail(Msg("is required"))]

\* the leftover entries of the input of the last call that are rejected:
\* all of them without soft-key rules, else those no rule accepts
Rejected ==
    {i \in 1..Len(LeftoverOf(value.pairs)) :
        \A j \in 1..Len(vdr.soft_keys) :
            ~IsOk(RuleResult(vdr.soft_keys[j], LeftoverOf(value.pairs)[i]))}

\* C13: Dict.check aggregates completely in one pass: it fails iff a hard
\* key failed validation or was required and missing, or a leftover entry
\* was rejected; the compound error then has an entry for every such key or
\* entry and none for a key or entry that passed; otherwise the collected
\* output record is returned.
C13_DictAggregatesCompletely ==
    DictChecked =>
        LET keys == vdr.hard_keys
            out == [i \in 1..Len(keys) |-> HardOutcome(keys[i])]
            failed == {i \in 1..Len(keys) : IsFail(out[i].r)}
            passed == {i \in 1..Len(keys) : IsOk(out[i].r)}
            left == LeftoverOf(value.pairs)
        IN /\ IsFail(result) <=> (failed # {} \/ Rejected # {})
           /\ IsFail(result) =>
                /\ result.err.e = "map"
                /\ \A i \in failed :
                     /\ HasKey(result.err.pairs, out[i].name)
                     /\ Get(result.err.pairs, out[i].name) = out[i].r.err
                /\ \A i \in Rejected : HasKey(result.err.pairs, left[i][1])
                /\ \A i \in passed : ~HasKey(result.err.pairs, out[i].name)
                /\ \A i \in (1..Len(left)) \ Rejected : ~HasKey(result.err.pairs, left[i][1])
                /\ Len(result.err.pairs) = Cardinality(failed) + Cardinality(Rejected)
           /\ (failed = {} /\ Rejected = {}) =>
                /\ IsOk(result)
                /\ result.val.t = "dict"
                /\ \A i \in passed :
                     /\ HasKey(result.val.pairs, out[i].name)
                     /\ Get(result.val.pairs, out[i].name) = out[i].r.val
                /\ Len(result.val.pairs) = Cardinality(passed) + Len(left)

\* C14: Dict.check never mutates the caller's input record: the hard keys
\* pop their entries out of a working copy, so after any call, successful
\* or failing, the input has exactly the entries it had before.
C14_InputNotMutated ==
    op = "Dict.check" => locals.value = value

\* a check that popped two hard keys and succeeded
C14_Witness ==
    /\ DictChecked
    /\ Len(vdr.hard_keys) = 2
    /\ \A i \in 1..2 : HasKey(value.pairs, vdr.hard_keys[i].name)
    /\ locals.trace[3].data = <<>>
    /\ IsOk(result)
    /\ Len(locals.value.pairs) = 2

\* the keys a make_optional call names: every key when it names none
Named(args, key) == args.items = <<>> \/ key.name \in Range(args.items)

\* C15: Dict.make_optional mutates the Dict in place and returns it: with no
\* names it marks every hard key optional, with names exactly the hard keys
\* so named, and leaves every other optional flag and all validators,
\* defaults, renames and soft-key rules unchanged; a check that follows
\* reports no 'is required' for an absent key that was made optional.
C15_MakeOptional ==
    [][/\ op' = "Dict.make_optional" =>
            /\ result' = Ok(Self)
            /\ vdr'.cls = "Dict"
            /\ vdr'.soft_keys = vdr.soft_keys
            /\ vdr'.converters = vdr.converters
            /\ Len(vdr'.hard_keys) = Len(vdr.hard_keys)
            /\ \A i \in 1..Len(vdr.hard_keys) :
                /\ vdr'.hard_keys[i].optional =
                       (vdr.hard_keys[i].optional \/ Named(value', vdr.hard_keys[i]))
                /\ [vdr'.hard_keys[i] EXCEPT !.optional = FALSE]
                       = [vdr.hard_keys[i] EXCEPT !.optional = FALSE]
       /\ (op = "Dict.make_optional" /\ op' = "Dict.check" /\ value'.t = "dict") =>
            \A i \in 1..Len(vdr.hard_keys) :
                (Named(value, vdr.hard_keys[i]) /\ ~HasKey(value'.pairs, vdr.hard_keys[i].name))
                    => /\ Len(locals'.trace) > i
                       /\ locals'.trace[i + 1].errors = locals'.trace[i].errors
                       /\ locals'.trace[i + 1].collect = locals'.trace[i].collect
      ]_vars

\* a key declared required, with no default, was made optional by name while
\* another hard key stayed required; the check that followed, on a dict
\* without the key, succeeded
C15_Witness ==
    /\ DictChecked
    /\ IsOk(result)
    /\ \E i \in 1..Len(vdr.hard_keys) :
        /\ vdr.hard_keys[i].name = sTest
        /\ vdr.hard_keys[i].optional
        /\ vdr.hard_keys[i].default = Undefined
        /\ ~HasKey(value.pairs, sTest)
        /\ \E k \in Range(DeclaredHardKeys) : k.name = sTest /\ ~k.optional
    /\ \E i \in 1..Len(vdr.hard_keys) : ~vdr.hard_keys[i].optional

\* C16: a Forward can be bound exactly once: provide on an unbound Forward
\* sets its target, and any later provide on the already-bound Forward
\* fails with a programming error (RuntimeError, not DataError) and leaves
\* the existing binding unchanged.
C16_ForwardBoundOnce ==
    [][/\ op' = "Forward.provide" =>
            IF forward # NoneV
            THEN result' = Raise("RuntimeError") /\ forward' = forward
            ELSE "cls" \in DOMAIN value' => (result' = Ok(NoneV) /\ forward' = value')
       /\ forward' # forward => (forward = NoneV /\ op' = "Forward.provide")
      ]_vars

\* a bound Forward was offered another validator: the call raised and the
\* Forward is bound as before
C16_Witness ==
    /\ op = "Forward.provide"
    /\ forward = Int_init
    /\ value = NodeDict(<<1, 2>>)
    /\ result = Raise("RuntimeError")

\* the validators that are direct children of the combinator vdr
Children ==
    CASE vdr.cls \in {"Or", "Tuple"} -> vdr.validators
      [] vdr.cls = "List" -> <<vdr.validator>>
      [] vdr.cls = "Mapping" -> <<vdr.validator_key, vdr.validator_value>>
      [] vdr.cls = "Dict" ->
            [i \in 1..Len(vdr.hard_keys) |-> vdr.hard_keys[i].validator]
            \o [i \in 1..Len(vdr.soft_keys) |-> vdr.soft_keys[i]]
      [] OTHER -> <<>>

\* the last check, on the input `value`, has called the check of a Forward
\* that is a child of vdr (or of a soft-key rule of vdr)
ReachesForward ==
    CASE vdr.cls = "Forward" -> TRUE
      [] vdr.cls = "Or" ->
            \E i \in 1..Len(vdr.validators) :
                /\ vdr.validators[i].cls = "Forward"
                /\ \A j \in 1..(i - 1) : IsFail(check(vdr.validators[j], value))
      [] vdr.cls = "List" ->
            /\ vdr.validator.cls = "Forward"
            /\ value.t = "list" /\ value.items # <<>> /\ ~ListOutOfBounds
      [] vdr.cls = "Tuple" ->
            /\ \E i \in 1..Len(vdr.validators) : vdr.validators[i].cls = "Forward"
            /\ ToTuple(value).ok /\ Len(ToTuple(value).items) = Len(vdr.validators)
      [] vdr.cls = "Mapping" ->
            /\ \E i \in 1..2 : Children[i].cls = "Forward"
            /\ value.t = "dict" /\ value.pairs # <<>>
      [] vdr.cls = "Dict" ->
            /\ value.t = "dict"
            /\ \/ \E i \in 1..Len(vdr.hard_keys) :
                     /\ vdr.hard_keys[i].validator.cls = "Forward"
                     /\ HasKey(value.pairs, vdr.hard_keys[i].name)
               \/ /\ \E i \in 1..Len(vdr.soft_keys) : Mentions(vdr.soft_keys[i])
                  /\ LeftoverOf(value.pairs) # <<>>
      [] OTHER -> FALSE

Checked == op \in {"Or.check", "List.check", "Tuple.check", "Mapping.check", "Dict.check",
                   "Forward.check"}

\* C17: the check of an unbound Forward fails with a programming error that
\* is no DataError, and every combinator around children (Or, List, Tuple,
\* the hard and the soft keys of Dict, Mapping) lets it through: a check
\* that reaches the unbound Forward ends in that RuntimeError, which is
\* neither counted as a failed Or candidate nor recorded as the data error
\* of a position or key; a check that does not reach it ends otherwise.
C17_UnboundForwardPropagates ==
    (Checked /\ forward = NoneV /\ Mentions(vdr)) =>
        /\ ReachesForward => result = Raise("RuntimeError")
        /\ ~ReachesForward => (~IsRaise(result) \/ result.exc # "RuntimeError")

\* the first candidate of an Or failed and the second is the unbound
\* Forward: no compound error, the RuntimeError
C17_Witness ==
    /\ op = "Or.check"
    /\ forward = NoneV
    /\ vdr.validators[2].cls = "Forward"
    /\ IsFail(check(vdr.validators[1], value))
    /\ result = Raise("RuntimeError")

\* C18: over any sequence of provide and check calls on a Forward, binding
\* must happen before the first check reaches it: a provide issued after a
\* check has reached the then unbound Forward is a programming error, just
\* as double-binding is.
C18_BindBeforeFirstUse ==
    [][(/\ Checked /\ forward = NoneV /\ result = Raise("RuntimeError")
        /\ op' = "Forward.provide" /\ "cls" \in DOMAIN value')
            => (IsRaise(result') /\ forward' = NoneV)
      ]_vars

\* a and b are equal as Python values: dicts whatever the order of their
\* entries, lists item by item
RECURSIVE DeepEq(_, _)
DeepEq(a, b) ==
    IF a.t # b.t THEN FALSE
    ELSE CASE a.t = "dict" ->
                /\ Len(a.pairs) = Len(b.pairs)
                /\ \A i \in 1..Len(a.pairs) :
                     /\ HasKey(b.pairs, a.pairs[i][1])
                     /\ DeepEq(a.pairs[i][2], Get(b.pairs, a.pairs[i][1]))
           [] a.t = "list" ->
                /\ Len(a.items) = Len(b.items)
                /\ \A i \in 1..Len(a.items) : DeepEq(a.items[i], b.items[i])
           [] OTHER -> a = b

\* the positions at which v, a value with the entries 'name' and 'children'
\* at every level it is a dict, departs from the shape of a node: where a
\* node is no dict, a name no string, or the children no list
RECURSIVE BadPaths(_)
BadPaths(v) ==
    IF v.t # "dict" THEN {<<>>}
    ELSE (IF Get(v.pairs, sName).t # "str" THEN {<<sName>>} ELSE {})
         \cup (IF Get(v.pairs, sChildren).t # "list" THEN {<<sChildren>>}
               ELSE UNION {{<<sChildren, IntV(i - 1)>> \o path :
                               path \in BadPaths(Get(v.pairs, sChildren).items[i])} :
                           i \in 1..Len(Get(v.pairs, sChildren).items)})

\* the locator paths of an error, each down to a message
RECURSIVE ErrorPaths(_)
ErrorPaths(err) ==
    IF err.e = "msg" THEN {<<>>}
    ELSE UNION {{<<err.pairs[i][1]>> \o path : path \in ErrorPaths(err.pairs[i][2])} :
                i \in 1..Len(err.pairs)}

\* the last call checked a value against node, bound by
\* node << Dict(name=String, children=List[node])
NodeChecked ==
    /\ op = "Forward.check"
    /\ vdr = Forward_init
    /\ forward \in {NodeDict(<<1, 2>>), NodeDict(<<2, 1>>)}

\* C19: for the self-referential schema node << Dict(name=String,
\* children=List[node]), the check of a finite well-formed instance
\* succeeds and returns a value equal to the input, and the check of a
\* malformed instance fails with an error whose locator paths lead exactly
\* to the malformed positions: to the one inner position, if there is one.
C19_RecursiveSchema ==
    NodeChecked =>
        IF BadPaths(value) = {}
        THEN IsOk(result) /\ DeepEq(result.val, value)
        ELSE IsFail(result) /\ ErrorPaths(result.err) = BadPaths(value)

\* the name of the only child of the second child of the root is no string
C19_Witness ==
    /\ NodeChecked
    /\ BadPaths(value) = {<<sChildren, IntV(1), sChildren, IntV(0), sName>>}
    /\ IsFail(result)
    /\ Get(Get(Get(Get(Get(result.err.pairs, sChildren).pairs, IntV(1)).pairs,
                   sChildren).pairs, IntV(0)).pairs, sName)
         = Msg("value is not a string")

\* what the first n of the converters give, each applied to what the one
\* before it returned, the first to raw
RECURSIVE Piped(_, _, _)
Piped(converters, n, raw) ==
    IF n = 0 THEN Ok(raw)
    ELSE IF IsOk(Piped(converters, n - 1, raw))
    THEN ApplyConverter(converters[n], Piped(converters, n - 1, raw).val)
    ELSE Piped(converters, n - 1, raw)

\* the last call was a check of vdr
AnyChecked == op = vdr.cls \o ".check"

\* C20: check runs the structural check first and, only if it succeeds,
\* applies the attached converters in attachment order, each receiving the
\* previous one's output; the validator's default conversion is applied if
\* and only if no converter is attached: with converters the first one
\* receives the raw result of the structural check, and no converter runs
\* when the structural check fails.  (Int() >> double >> triple).check(1)
\* is 6, (Int() >> float >> str).check(4) is '4.0'.
C20_ConvertersAfterCheck ==
    AnyChecked =>
        /\ ~IsOk(locals.result) => result = locals.result
        /\ (IsOk(locals.result) /\ vdr.converters # <<>>) =>
              result = Piped(vdr.converters, Len(vdr.converters), locals.result.val)
        /\ (IsOk(locals.result) /\ vdr.converters = <<>>) =>
              IF vdr.cls = "String" /\ vdr.regex # NoneV
              THEN result = Ok(StrV(SubSeq(value.s, 1, locals.result.val.n)))
              ELSE result = locals.result
        /\ (vdr = rshift(rshift(Int_init, "double"), "triple") /\ value = IntV(1)) =>
              result = Ok(IntV(6))
        /\ (vdr = rshift(rshift(Int_init, "float"), "str") /\ value = IntV(4)) =>
              result = Ok(StrV(<<"4", ".", "0">>))

\* Int() >> str >> float gives the float 4.0 where Int() >> float >> str
\* gives '4.0'
C20_Witness ==
    /\ op = "Int.check"
    /\ vdr.converters = <<"str", "float">>
    /\ value = IntV(4)
    /\ locals.result = Ok(IntV(4))
    /\ result = Ok(FloatV(40))

\* C21: attaching a converter with >> leaves the validator it is attached
\* to as it was, its converter list and the result of its check on every
\* input, and returns a validator that applies the new converter last.
C21_RshiftIndependentSibling ==
    [][op' = ">>" =>
        /\ vdr'.converters = vdr.converters
        /\ \A x \in Inputs(vdr.cls) : check(vdr, x)' = check(vdr, x)
        /\ result'.val = rshift(vdr, value'.r)]_vars

\* flat is err flattened: the message of a leaf, and for a compound error a
\* mapping with the locators of err, each child flattened the same way
RECURSIVE Flattened(_, _)
Flattened(err, flat) ==
    IF err.e = "msg" THEN flat = Text(err.m)
    ELSE /\ flat.t = "dict"
         /\ Len(flat.pairs) = Len(err.pairs)
         /\ \A i \in 1..Len(err.pairs) :
              /\ flat.pairs[i][1] = err.pairs[i][1]
              /\ Flattened(err.pairs[i][2], flat.pairs[i][2])

\* no error object is left anywhere in flat
RECURSIVE NoErrorObject(_)
NoErrorObject(flat) ==
    /\ ~IsDataError(flat)
    /\ flat.t = "dict" => \A i \in 1..Len(flat.pairs) : NoErrorObject(flat.pairs[i][2])

\* the last call was extract_error and the check had raised a DataError
ErrorExtracted ==
    /\ op = "extract_error"
    /\ IsOk(locals.result)
    /\ IsDataError(locals.result.val)

\* the most locators on a path of err down to a message
RECURSIVE ErrorDepth(_)
ErrorDepth(err) ==
    IF err.e = "msg" \/ err.pairs = <<>> THEN 0
    ELSE 1 + ErrorDepth(err.pairs[CHOOSE i \in 1..Len(err.pairs) :
                             \A j \in 1..Len(err.pairs) :
                                 ErrorDepth(err.pairs[j][2]) <= ErrorDepth(err.pairs[i][2])][2])

\* C22: as_dict renders a leaf error as its message and a compound error
\* as a mapping with the same locators whose children are flattened the
\* same way at every depth, single-entry mappings included; the flattened
\* tree holds no error object, and flattening an error made of it gives it
\* back unchanged.
C22_AsDictFlattens ==
    ErrorExtracted =>
        /\ IsOk(result)
        /\ Flattened(locals.result.val, result.val)
        /\ NoErrorObject(result.val)
        /\ DataError_as_dict(DataError_init(result.val)) = result.val

\* a compound error three locators deep whose top mapping has one entry
C22_Witness ==
    /\ ErrorExtracted
    /\ locals.result.val.e = "map"
    /\ Len(locals.result.val.pairs) = 1
    /\ ErrorDepth(locals.result.val) >= 3
    /\ result = Ok(DataError_as_dict(locals.result.val))

LeafClasses == OtherLeafClasses \cup {"Int", "String"}

\* the last call was the check of a leaf validator that has no converters
\* and accepted the value
LeafAccepted ==
    /\ vdr.cls \in LeafClasses
    /\ op = vdr.cls \o ".check"
    /\ vdr.converters = <<>>
    /\ IsOk(result)

\* C23 as stated: every leaf validator without converters returns the
\* input it accepts unchanged, that is a value equal to it as Python
\* compares values.
C23_LeafIdentity ==
    LeafAccepted => PyEq(result.val, value)

\* C23: a leaf validator without converters returns the input it accepts
\* unchanged when it is a Type, Any, Null, Enum, Callable or a String
\* without a pattern, and when the input already is of the kind the
\* validator yields (a bool for Bool, an int for Int, a float for Float,
\* a str the pattern matches to its end for String); otherwise Bool with
\* conversion returns a bool, Int and Float the number converted from the
\* input, String with a pattern the matched prefix of the input, and Atom
\* its own value, which equals the input.
C23_LeafIdentityWhereNoConversion ==
    LeafAccepted =>
        CASE vdr.cls \in {"Type", "Any", "Null", "Enum", "Callable"} -> result.val = value
          [] vdr.cls = "Bool" ->
                IF value.t = "bool" THEN result.val = value
                ELSE vdr.convert /\ result.val.t = "bool"
          [] vdr.cls = "Int" ->
                IF value.t \in {"int", "bool"} THEN result.val = value
                ELSE /\ result.val.t = "int"
                     /\ IsReal(value) => Num10(result.val) = Num10(value)
          [] vdr.cls = "Float" ->
                IF value.t = "float" THEN result.val = value
                ELSE /\ result.val.t = "float"
                     /\ IsReal(value) => Num10(result.val) = Num10(value)
          [] vdr.cls = "Atom" -> result.val = vdr.value /\ PyEq(result.val, value)
          [] vdr.cls = "String" ->
                IF vdr.regex = NoneV THEN result.val = value
                ELSE /\ result.val.t = "str"
                     /\ \E n \in 1..Len(value.s) :
                          /\ result.val.s = SubSeq(value.s, 1, n)
                          /\ \A i \in 1..n : value.s[i] \in vdr.regex.chars
                          /\ n < Len(value.s) => value.s[n + 1] \notin vdr.regex.chars

\* String(regex=r"[abr]+").check("bax") returned "ba"
C23_Witness ==
    /\ LeafAccepted
    /\ vdr = String_init_regex({"a", "b", "r"}, FALSE)
    /\ value = StrV(<<"b", "a", "x">>)
    /\ result = Ok(StrV(<<"b", "a">>))

\* the candidates a validator brings into a composition: those of an Or,
\* and a validator of another class itself
Candidates(validator) ==
    IF validator.cls = "Or" THEN validator.validators ELSE <<validator>>

\* the operands of the last composition, left and right
LeftOperand == IF locals.left THEN vdr ELSE value
RightOperand == IF locals.left THEN value ELSE vdr

\* C24: composing an Or with another validator by |, on either side and
\* also when the other validator is an Or, gives one Or whose candidates
\* are those of the left operand followed by those of the right operand.
C24_OrFlattens ==
    op = "|" => result = Ok(Or_init(Candidates(LeftOperand) \o Candidates(RightOperand)))

\* C25: with the schema complete, check writes nothing the callers share,
\* and however the steps of concurrent checks on one Dict interleave, every
\* caller gets what its call gives when it runs alone.
C25_ConcurrentChecksAsAlone ==
    /\ [](\A c \in Callers : locals.pc[c] = "done" => result[c] = check(vdr, value[c]))
    /\ [][vdr' = vdr /\ forward' = forward]_vars

\* caller 1 entered first and finished last with another input and another
\* result than caller 2, whose whole check ran in between
C25_Witness ==
    /\ calls.started = <<1, 2>>
    /\ calls.finished = <<2, 1>>
    /\ value[1] # value[2]
    /\ result[1] = check(vdr, value[1])
    /\ result[1] # result[2]
    /\ IsOk(result[1]) /\ IsFail(result[2])

\* the strs the docstring of Bool and its tests take for True and for False
TrueWords ==
    {StrV(<<"t", "r", "u", "e">>), StrV(<<"t">>), StrV(<<"y", "e", "s">>), StrV(<<"y">>),
     StrV(<<"1">>)}
FalseWords ==
    {StrV(<<"f", "a", "l", "s", "e">>), StrV(<<"f">>), StrV(<<"n", "o">>), StrV(<<"n">>),
     StrV(<<"0">>)}

\* what Bool(convert=True).check(v) is to give
BoolOf(v) ==
    CASE v.t = "bool" -> Ok(v)
      [] v.t = "int" /\ v.i \in {0, 1} -> Ok(BoolV(v.i = 1))
      [] v.t = "str" /\ StrV(Lower(Strip(v.s))) \in TrueWords -> Ok(BoolV(TRUE))
      [] v.t = "str" /\ StrV(Lower(Strip(v.s))) \in FalseWords -> Ok(BoolV(FALSE))
      [] OTHER -> Fail(Msg("value cannot be converted to bool"))

\* C26: Bool with conversion maps True, 1 and, stripped and lower-cased,
\* 'true', 't', 'yes', 'y', '1' to True, maps False, 0, 'false', 'f', 'no',
\* 'n', '0' to False, and rejects every other value with 'value cannot be
\* converted to bool'.
C26_BoolAliases ==
    (op = "Bool.check" /\ vdr = Bool_init(TRUE)) => result = BoolOf(value)

\* how deep the containers of a value are nested; a value that is no
\* container has depth 0
RECURSIVE NestingDepth(_)
NestingDepth(v) ==
    CASE v.t \in {"list", "tuple"} ->
            1 + MaxOf({NestingDepth(v.items[i]) : i \in 1..Len(v.items)})
      [] v.t = "dict" ->
            1 + MaxOf({NestingDepth(v.pairs[i][2]) : i \in 1..Len(v.pairs)})
      [] OTHER -> 0

\* C27: on a bound Forward whose cycles pass through a child position of
\* a List, Tuple, Dict or Mapping (every binding of the model is one),
\* check ends without exhausting the stack, and the calls of the Forward
\* nested at one time are no more than the nesting depth of the input
\* plus the one at the top.
C27_CheckTerminates ==
    (op = "Forward.check" /\ forward # NoneV) =>
        /\ result # RecursionError
        /\ locals.depth <= NestingDepth(value) + 1

\* the last call checked a combinator without converters whose Forwards,
\* if any, are bound
CombinatorChecked ==
    /\ op \in {"Or.check", "List.check", "Tuple.check", "Dict.check", "Mapping.check"}
    /\ op = vdr.cls \o ".check"
    /\ vdr.converters = <<>>
    /\ Bound

\* C28: check of a bound schema of Or, List, Tuple, Dict and Mapping over
\* leaves, on any input, a value of the wrong container kind included,
\* returns a value or raises a DataError: no other kind of exception
\* escapes.
C28_OnlyDataErrorEscapes ==
    CombinatorChecked => (IsOk(result) \/ IsFail(result))

\* what the i-th hard key of the Dict vdr yielded in the last call: the
\* pairs of key.pop on the working copy as the keys before it left it
Yielded(i) == Key_pop(vdr.hard_keys[i], locals.trace[i].data).yields

\* the i-th hard key stored nothing, or what it stored is still there when
\* the loops end: its value in collect under the name it was yielded
\* with, or its error in errors
Kept(i) ==
    \/ Yielded(i) = <<>>
    \/ /\ IsOk(Yielded(i)[1][2])
       /\ HasKey(locals.collect, Yielded(i)[1][1])
       /\ Get(locals.collect, Yielded(i)[1][1]) = Yielded(i)[1][2].val
    \/ /\ IsFail(Yielded(i)[1][2])
       /\ HasKey(locals.errors, Yielded(i)[1][1])
       /\ Get(locals.errors, Yielded(i)[1][1]) = Yielded(i)[1][2].err
    \/ IsRaise(Yielded(i)[1][2])

\* C29: what a hard key of a Dict stores is never overwritten: its value
\* stays in the output under its output name whatever the renames of the
\* other hard keys and the converted keys of the soft rules, and its
\* error stays in the errors whatever the other keys report.
C29_HardEntriesKept ==
    (op = "Dict.check" /\ value.t = "dict" /\ Bound) =>
        \A i \in 1..Len(vdr.hard_keys) : Kept(i)

====
